---- MODULE Spec2Model ----
(***************************************************************************)
(* Verification model of wallet_features (feature extraction for wallets). *)
(*                                                                         *)
(* The state machines of this module:                                       *)
(*   Spec          compute_wallets_features: the batch orchestrator, one   *)
(*                 worker task per input wallet behind asyncio.Semaphore.  *)
(*   FairSpec      Spec with the fairness of the asyncio event loop.       *)
(*   SpecClassify  FeatureCalculator._classify_single over event groups.   *)
(*   SpecFeatures  FeatureCalculator.compute_wallet_features: windows,     *)
(*                 classification, gas fee, record assembly.               *)
(*                                                                         *)
(*   SpecDecode    FeatureCalculator._decode_value.                        *)
(*   SpecPrice     PriceService.get_price with its two caches.             *)
(*   SpecParse     PriceService._parse_historical_price.                   *)
(*   SpecRetry     async_retry around AlchemyClient._post and              *)
(*                 PriceService._request.                                  *)
(*   SpecGate      concurrent rpc calls behind AlchemyClient._semaphore.   *)
(*   SpecGather    gather_wallet_transfers and its two pagination loops.   *)
(*   SpecNormalize FeatureCalculator._normalize_transfer.                  *)
(*   SpecCombine   FeatureCalculator._combine_events.                      *)
(*   SpecLoad      load_wallets over the rows of a sheet.                  *)
(*   SpecFetch     FeatureCalculator.fetch_wallet_data: its two fetches.   *)
(*                                                                         *)
(* Python's None is the string "None" for addresses and hashes, and the    *)
(* empty set for optional numbers ({} = None, {v} = v).                    *)
(* Money is counted in whole cents, time in whole days.                    *)
(***************************************************************************)
EXTENDS Integers, Sequences, FiniteSets, TLC

VARIABLES
    \* ---- compute_wallets_features (features.py 381-407)
    wallets,        \* the input iterable, as a list (duplicates allowed)
    concurrency,    \* the concurrency argument
    semaphore,      \* free permits of asyncio.Semaphore(max(1, concurrency))
    wpc,            \* wpc[i]: position of worker i: "queued" | "running" | "done"
    outcome,        \* outcome[i]: what compute_wallet_features did in worker i
    results,        \* dict wallet -> feature record
    errors,         \* dict wallet -> str(exc)
    bpc,            \* "gather" | "returned"
    \* ---- _classify_single (features.py 296-321)
    cl_wallet,      \* the wallet argument
    cl_events,      \* the events argument (one transaction's events)
    cl_result,      \* the returned tag, "" before the call
    \* ---- compute_wallet_features (features.py 153-224)
    fpc,            \* "start" | "fetched" | "windows" | "gas" | "returned"
    fwallet,        \* the wallet argument
    events_year,    \* the 12-month set
    events_250,     \* the latest-250 set
    reference,      \* utc_now() at line 161, in days
    receipts,       \* the provider's receipt per transaction hash
    native_priced,  \* whether the price service has a native-asset price
    include_gas_fees,   \* the calculator's include_gas_fees option
    transactions_cache, \* _transactions_cache[wallet], <<>> before the call
    usd_cache,      \* dict unique_id -> usd value (cents)
    priced,         \* number of _event_usd_value calls made so far
    counts,         \* label -> Total Tx Count
    volumes,        \* label -> Total Tx Volume (cents)
    gas_fee_usd,    \* result of _total_gas_fee (cents)
    features,       \* the returned record, <<>> before the return
    \* ---- _decode_value (features.py 262-279)
    dc_event,       \* the event argument: raw_value, embedded decimals, contract
    dc_provider,    \* what AlchemyClient.get_token_metadata does when asked
    _metadata_cache,    \* dict contract address -> token metadata
    dc_result,      \* <<>> before the call, then [raised, value]
    \* ---- PriceService.get_price (pricing.py 64-195)
    api_key,        \* whether an API key is configured
    _price_cache,   \* dict cache key -> TokenPrice
    _contract_id_cache, \* dict lower-cased contract -> token id or None
    pr_provider,    \* what the provider does with each kind of request
    pr_returned,    \* every price returned so far, as [asset, hour, price]
    pr_call,        \* <<>> before the first get_price, then the latest call
    \* ---- PriceService._parse_historical_price (pricing.py 225-246)
    ps_quotes,      \* the quote entries of the response, in response order
    ps_requested,   \* fallback_timestamp: the requested timestamp
    ps_result,      \* <<>> before the call, then {} (None) or {TokenPrice}
    \* ---- async_retry around _post / _request (utils.py 176-208)
    rt_func,        \* the wrapped function: "_post" or "_request"
    rt_upstream,    \* the upstream's condition: the response it gives while it lasts
    rt_pc,          \* "call" | "sleeping" | "returned" | "raised"
    attempt,        \* the wrapper's attempt counter
    rt_responses,   \* the upstream response of every call of func, in order
    rt_delays,      \* the argument of every asyncio.sleep, in ms, in order
    \* ---- AlchemyClient._post under concurrent callers (alchemy.py 37, 61-76)
    _semaphore,     \* free permits of asyncio.Semaphore(10)
    gt_calls,       \* number of rpc calls at each position
    \* ---- gather_wallet_transfers (alchemy.py 141-180, 214-261)
    gw_provider,    \* the provider's transfers per direction, newest first
    gw_limit,       \* the limit argument ({} for None)
    gw_stop,        \* the stop_timestamp argument ({} for None)
    gw_fetched,     \* all_transfers of each direction's pagination loop
    gw_page_key,    \* page_key of each direction's pagination loop ({} for None)
    gw_pages,       \* per direction, every page received with the key it was asked by
    gw_finished,    \* the directions in the order their loops returned
    gw_pc,          \* per direction "paging" | "done", then "returned"
    gw_result,      \* the returned list
    \* ---- _normalize_transfer (features.py 112-151)
    nz_wallet,      \* the wallet argument
    nz_transfer,    \* the raw transfer record
    nz_event,       \* <<>> before the call, then the TransferEvent
    \* ---- _combine_events (features.py 231-244)
    cb_year,        \* the events_year argument
    cb_recent,      \* the events_recent argument
    cb_result,      \* <<>> before the call, then [merged, again]
    \* ---- load_wallets on an Excel sheet (utils.py 49-131)
    lw_sheet,       \* the rows of the active sheet, each a tuple of cells
    lw_result,      \* <<>> before the call, then [raised, wallets]
    \* ---- fetch_wallet_data (features.py 95-110)
    fd_pages,       \* pages the provider has per fetch and direction
    fd_pc,          \* position of fetch_wallet_data and of its two fetches
    fd_task         \* per fetch and direction: pages received, request in flight

batchVars == <<wallets, concurrency, semaphore, wpc, outcome, results, errors, bpc>>
classifyVars == <<cl_wallet, cl_events, cl_result>>
featureVars == <<fpc, fwallet, events_year, events_250, reference, receipts,
                 native_priced, include_gas_fees, transactions_cache, usd_cache,
                 priced, counts, volumes, gas_fee_usd, features>>
decodeVars == <<dc_event, dc_provider, _metadata_cache, dc_result>>
priceVars == <<api_key, _price_cache, _contract_id_cache, pr_provider, pr_returned,
               pr_call>>
parseVars == <<ps_quotes, ps_requested, ps_result>>
retryVars == <<rt_func, rt_upstream, rt_pc, attempt, rt_responses, rt_delays>>
gateVars == <<_semaphore, gt_calls>>
gatherVars == <<gw_provider, gw_limit, gw_stop, gw_fetched, gw_page_key, gw_pages,
                gw_finished, gw_pc, gw_result>>
normalizeVars == <<nz_wallet, nz_transfer, nz_event>>
combineVars == <<cb_year, cb_recent, cb_result>>
loadVars == <<lw_sheet, lw_result>>
fetchVars == <<fd_pages, fd_pc, fd_task>>
intakeVars == <<loadVars, fetchVars>>
clientVars == <<decodeVars, priceVars, parseVars, retryVars, gateVars, gatherVars,
                normalizeVars, combineVars, intakeVars>>
vars == <<batchVars, classifyVars, featureVars, clientVars>>

----------------------------------------------------------------------------
(* Generic helpers *)

Range(s) == {s[i] : i \in 1..Len(s)}

SeqsUpTo(S, n) == UNION {[1..k -> S] : k \in 0..n}

Max(a, b) == IF a >= b THEN a ELSE b

EmptyMap == [x \in {} |-> x]

\* dict[key] = value
Put(d, k, v) == [x \in DOMAIN d \cup {k} |-> IF x = k THEN v ELSE d[x]]

RECURSIVE SumOver(_, _)
SumOver(S, f) ==
    IF S = {} THEN 0
    ELSE LET x == CHOOSE y \in S : TRUE IN f[x] + SumOver(S \ {x}, f)

----------------------------------------------------------------------------
(* Time windows, features.py 17-22 *)

WINDOWS == <<[label |-> "1M", days |-> 30],
             [label |-> "3M", days |-> 90],
             [label |-> "6M", days |-> 180],
             [label |-> "12M", days |-> 365]>>

LabelSet == {WINDOWS[i].label : i \in 1..Len(WINDOWS)}

----------------------------------------------------------------------------
(* The feature record *)

\* FeatureCalculator._empty_features, features.py 363-378
_empty_features(wallet) ==
    [Wallet |-> wallet,
     MonthlyTxCountAvg |-> 0,
     MonthlyTxVolumeAvg |-> 0,
     LastTransactionDate |-> "",
     TimeBetweenLast2 |-> "",
     TokenCategories |-> {},
     TxTypes |-> {},
     TotalGasFee |-> 0,
     error |-> "",
     TotalTxCount |-> [l \in LabelSet |-> 0],
     TotalTxVolume |-> [l \in LabelSet |-> 0]]

----------------------------------------------------------------------------
(* Idle values of the state machines that a specification does not run *)

BatchIdle ==
    /\ wallets = <<>> /\ concurrency = 1 /\ semaphore = 1
    /\ wpc = <<>> /\ outcome = <<>>
    /\ results = EmptyMap /\ errors = EmptyMap /\ bpc = "idle"

ClassifyIdle ==
    /\ cl_wallet = "" /\ cl_events = <<>> /\ cl_result = ""

FeatureIdle ==
    /\ fpc = "idle" /\ fwallet = "" /\ events_year = <<>> /\ events_250 = <<>>
    /\ reference = 0 /\ receipts = EmptyMap /\ native_priced = TRUE
    /\ include_gas_fees = TRUE /\ transactions_cache = <<>>
    /\ usd_cache = EmptyMap /\ priced = 0
    /\ counts = EmptyMap /\ volumes = EmptyMap /\ gas_fee_usd = 0
    /\ features = <<>>

DecodeIdle ==
    /\ dc_event = <<>> /\ dc_provider = <<>> /\ _metadata_cache = EmptyMap
    /\ dc_result = <<>>

PriceIdle ==
    /\ api_key = TRUE /\ _price_cache = EmptyMap /\ _contract_id_cache = EmptyMap
    /\ pr_provider = <<>> /\ pr_returned = {} /\ pr_call = <<>>

ParseIdle ==
    /\ ps_quotes = <<>> /\ ps_requested = 0 /\ ps_result = <<>>

RetryIdle ==
    /\ rt_func = "" /\ rt_upstream = "" /\ rt_pc = "idle" /\ attempt = 0
    /\ rt_responses = <<>> /\ rt_delays = <<>>

GateIdle ==
    /\ _semaphore = 0 /\ gt_calls = EmptyMap

GatherIdle ==
    /\ gw_provider = <<>> /\ gw_limit = {} /\ gw_stop = {}
    /\ gw_fetched = <<>> /\ gw_page_key = <<>> /\ gw_pages = <<>>
    /\ gw_finished = <<>> /\ gw_pc = <<>> /\ gw_result = <<>>

NormalizeIdle ==
    /\ nz_wallet = "" /\ nz_transfer = <<>> /\ nz_event = <<>>

CombineIdle ==
    /\ cb_year = <<>> /\ cb_recent = <<>> /\ cb_result = <<>>

LoadIdle ==
    /\ lw_sheet = <<>> /\ lw_result = <<>>

FetchIdle ==
    /\ fd_pages = <<>> /\ fd_pc = <<>> /\ fd_task = <<>>

IntakeIdle == LoadIdle /\ FetchIdle

ClientIdle ==
    /\ DecodeIdle /\ PriceIdle /\ ParseIdle /\ RetryIdle
    /\ GateIdle /\ GatherIdle /\ NormalizeIdle /\ CombineIdle
    /\ IntakeIdle

----------------------------------------------------------------------------
(* compute_wallets_features, features.py 381-407 *)

Wallets == {"0xaaa", "0xbbb"}

MaxWallets == 3

MaxConcurrency == 2

\* Exceptions compute_wallet_features can raise: one built without a message
\* (asyncio.TimeoutError()), one with a message (AlchemyError("HTTP 500")).
Exceptions == {[type |-> "TimeoutError", args |-> <<>>],
               [type |-> "AlchemyError", args |-> <<"HTTP 500">>]}

\* str(exc), features.py 400: the message of an exception, "" when it has none
Str(exc) == IF Len(exc.args) = 0 THEN "" ELSE exc.args[1]

\* Records compute_wallet_features can return for a wallet: the zero-filled
\* record (no events) or a record with activity; both have error "".
ComputedFeatures(wallet) ==
    {_empty_features(wallet),
     [_empty_features(wallet) EXCEPT
         !.TotalTxCount = [l \in LabelSet |-> IF l = "1M" THEN 1 ELSE 2],
         !.TotalTxVolume = [l \in LabelSet |-> IF l = "1M" THEN 100000 ELSE 200000],
         !.TotalGasFee = 210,
         !.LastTransactionDate = "2026-01-01T00:00:00+00:00",
         !.TimeBetweenLast2 = "960.00",
         !.TokenCategories = {"EXTERNAL"},
         !.TxTypes = {"TRANSFER"}]}

\* asyncio.Semaphore(max(1, concurrency)), features.py 392
SemaphoreSizeNoFloor(c) == c + 1

SemaphoreSize(c) == Max(1, c)

Workers == 1..Len(wallets)

Running == {i \in Workers : wpc[i] = "running"}

NoOutcome == [kind |-> "none"]

BatchInit ==
    /\ wallets \in SeqsUpTo(Wallets, MaxWallets)
    /\ concurrency \in (0 - 1)..MaxConcurrency
    /\ semaphore = SemaphoreSize(concurrency)
    /\ wpc = [i \in 1..Len(wallets) |-> "queued"]
    /\ outcome = [i \in 1..Len(wallets) |-> NoOutcome]
    /\ results = EmptyMap
    /\ errors = EmptyMap
    /\ bpc = "gather"

\* async with semaphore (entry), features.py 395
WorkerAcquire(i) ==
    /\ bpc = "gather"
    /\ wpc[i] = "queued"
    /\ semaphore > 0
    /\ semaphore' = semaphore - 1
    /\ wpc' = [wpc EXCEPT ![i] = "running"]
    /\ UNCHANGED <<wallets, concurrency, outcome, results, errors, bpc>>
    /\ UNCHANGED <<classifyVars, featureVars, clientVars>>

\* results[wallet] = await calculator.compute_wallet_features(wallet), then
\* the semaphore is released on leaving the with block: features.py 395-397
WorkerReturns(i) ==
    /\ bpc = "gather"
    /\ wpc[i] = "running"
    /\ \E rec \in ComputedFeatures(wallets[i]) :
          /\ outcome' = [outcome EXCEPT ![i] = [kind |-> "returned", record |-> rec]]
          /\ results' = Put(results, wallets[i], rec)
    /\ semaphore' = semaphore + 1
    /\ wpc' = [wpc EXCEPT ![i] = "done"]
    /\ UNCHANGED <<wallets, concurrency, errors, bpc>>
    /\ UNCHANGED <<classifyVars, featureVars, clientVars>>

\* except Exception as exc: errors[wallet] = str(exc), then the release:
\* features.py 395-400
WorkerRaisesKeepsSlot(i) ==
    /\ bpc = "gather"
    /\ wpc[i] = "running"
    /\ \E exc \in Exceptions :
          /\ outcome' = [outcome EXCEPT ![i] = [kind |-> "raised", exc |-> exc]]
          /\ errors' = Put(errors, wallets[i], Str(exc))
    /\ wpc' = [wpc EXCEPT ![i] = "done"]
    /\ UNCHANGED <<wallets, concurrency, semaphore, results, bpc>>
    /\ UNCHANGED <<classifyVars, featureVars, clientVars>>

WorkerRaises(i) ==
    /\ bpc = "gather"
    /\ wpc[i] = "running"
    /\ \E exc \in Exceptions :
          /\ outcome' = [outcome EXCEPT ![i] = [kind |-> "raised", exc |-> exc]]
          /\ errors' = Put(errors, wallets[i], Str(exc))
    /\ semaphore' = semaphore + 1
    /\ wpc' = [wpc EXCEPT ![i] = "done"]
    /\ UNCHANGED <<wallets, concurrency, results, bpc>>
    /\ UNCHANGED <<classifyVars, featureVars, clientVars>>

\* base = calculator._empty_features(wallet); base["error"] = error
\* features.py 404-405
ErrorRecordKeepsMetrics(wallet, error) ==
    [(CHOOSE r \in ComputedFeatures(wallet) : r # _empty_features(wallet))
        EXCEPT !.error = error]

ErrorRecord(wallet, error) == [_empty_features(wallet) EXCEPT !.error = error]

\* for wallet, error in errors.items(): results[wallet] = base
\* features.py 403-406
MergeErrorsDropsFailed(res, errs) == res

MergeErrors(res, errs) ==
    [w \in DOMAIN res \cup DOMAIN errs |->
        IF w \in DOMAIN errs THEN ErrorRecord(w, errs[w]) ELSE res[w]]

\* await asyncio.gather(...) has every worker's result; the errors are merged
\* and results returned: features.py 402-407
GatherReturns ==
    /\ bpc = "gather"
    /\ \A i \in Workers : wpc[i] = "done"
    /\ results' = MergeErrors(results, errors)
    /\ bpc' = "returned"
    /\ UNCHANGED <<wallets, concurrency, semaphore, wpc, outcome, errors>>
    /\ UNCHANGED <<classifyVars, featureVars, clientVars>>

Next ==
    \/ \E i \in Workers : WorkerAcquire(i)
    \/ \E i \in Workers : WorkerReturns(i)
    \/ \E i \in Workers : WorkerRaises(i)
    \/ GatherReturns

Init == BatchInit /\ ClassifyIdle /\ FeatureIdle /\ ClientIdle

Spec == Init /\ [][Next]_vars

\* The event loop runs the tasks that are ready: while a slot is free and a
\* worker waits at the semaphore, a worker enters; a compute_wallet_features
\* call that was started ends (it returns or raises); gather returns once
\* every worker is done.
WorkerStarts == \E i \in Workers : WorkerAcquire(i)

WorkerEnds == \E i \in Workers : WorkerReturns(i) \/ WorkerRaises(i)

FairSpec ==
    /\ Init /\ [][Next]_vars
    /\ WF_vars(WorkerStarts) /\ WF_vars(WorkerEnds) /\ WF_vars(GatherReturns)

----------------------------------------------------------------------------
(* Claims about compute_wallets_features, checked under Spec *)

Raised(w) == \E i \in Workers : wallets[i] = w /\ outcome[i].kind = "raised"

ZeroFilled(r) ==
    /\ \A l \in LabelSet : r.TotalTxCount[l] = 0 /\ r.TotalTxVolume[l] = 0
    /\ r.MonthlyTxCountAvg = 0 /\ r.MonthlyTxVolumeAvg = 0
    /\ r.TotalGasFee = 0
    /\ r.LastTransactionDate = "" /\ r.TimeBetweenLast2 = ""
    /\ r.TokenCategories = {} /\ r.TxTypes = {}

\* C1: when compute_wallets_features returns, the mapping has one record for
\* every distinct input wallet (filed under that wallet) and no other key, for
\* every concurrency value (also below 1), whether the computations returned
\* or raised.
C1_EveryWalletOnce ==
    bpc = "returned" =>
        /\ DOMAIN results = Range(wallets)
        /\ \A w \in DOMAIN results : results[w].Wallet = w

C1_Witness ==
    /\ bpc = "returned"
    /\ concurrency < 1
    /\ Len(wallets) = MaxWallets
    /\ Cardinality(Range(wallets)) = 2
    /\ \E i \in Workers : outcome[i].kind = "raised"
    /\ \E i \in Workers : outcome[i].kind = "returned"

\* C2: a wallet whose computation raises neither makes the batch raise nor
\* cancels the others: every worker finishes, every non-failing wallet's record
\* is one its own computation returned, and the failing wallet's record has
\* every count, volume, average and gas field zero and every text metric empty.
C2_FailureIsolated ==
    bpc = "returned" =>
        /\ \A i \in Workers : wpc[i] = "done" /\ outcome[i].kind # "none"
        /\ \A w \in Range(wallets) :
              IF Raised(w)
              THEN ZeroFilled(results[w])
              ELSE \E i \in Workers :
                      /\ wallets[i] = w
                      /\ outcome[i].kind = "returned"
                      /\ results[w] = outcome[i].record

C2_Witness ==
    /\ bpc = "returned"
    /\ \E w \in Range(wallets) : Raised(w) /\ ZeroFilled(results[w])
    /\ \E w \in Range(wallets) : ~Raised(w) /\ ~ZeroFilled(results[w])

\* C3: in the returned mapping a wallet's error field is "" if and only if its
\* computation succeeded; a wallet whose computation raised, whatever the
\* exception (also one without a message), has a non-empty error field.
C3_ErrorIffFailed ==
    bpc = "returned" =>
        \A w \in Range(wallets) : (results[w].error = "") <=> ~Raised(w)

\* C4: at every moment the number of wallets whose compute_wallet_features
\* call has started and not finished is at most max(1, concurrency).
C4_GateBound == Cardinality(Running) <= Max(1, concurrency)

C4_Witness ==
    /\ concurrency = MaxConcurrency
    /\ Cardinality(Running) = concurrency
    /\ \E i \in Workers : wpc[i] = "queued"

\* The slots of the gate are free or held by a running worker
SlotsAccounted ==
    semaphore + Cardinality(Running) = SemaphoreSize(concurrency)

Started(i) == i \in Workers /\ wpc[i] # "queued"

\* C29: every worker gives its slot of the gate back when its wallet's
\* computation ends, by a return or by an exception; so, when every
\* compute_wallet_features call ends, every queued wallet is eventually
\* started and compute_wallets_features eventually returns, whatever the
\* number of failing wallets and the concurrency.
C29_SlotsReleasedAndBatchReturns ==
    /\ []SlotsAccounted
    /\ <>(bpc = "returned" /\ \A i \in Workers : Started(i))

\* A batch returned in which more wallets than slots were queued and the
\* computations of all of them raised
C29_Witness ==
    /\ bpc = "returned"
    /\ Len(wallets) > SemaphoreSize(concurrency)
    /\ \A i \in Workers : outcome[i].kind = "raised"

----------------------------------------------------------------------------
(* TransferEvent, features.py 32-57 *)

\* str.lower() on the strings that occur in the model
Lower(a) ==
    CASE a = "0xWALLET" -> "0xwallet"
      [] a = "0xOTHER" -> "0xother"
      [] a = "0xH1" -> "0xh1"
      [] a = "ERC20" -> "erc20"
      [] a = "0xTOKEN" -> "0xtoken"
      [] a = "0xAA" -> "0xaa"
      [] a = "Name.ETH" -> "name.eth"
      [] a = "Address" -> "address"
      [] OTHER -> a

\* Truthiness of an optional string: None and "" are falsy
Truthy(s) == s # "None" /\ s # ""

\* A TransferEvent. raw_contract_address is raw_contract.get("address"),
\* raw_address is raw.get("rawContract", {}).get("address"); value is the
\* pre-decoded amount ({} for None) and decoded the amount _decode_value
\* yields for the event ({} for None).
Event(tx_hash, unique_id, timestamp, category, value, from_address, to_address, raw_contract_address, raw_address) ==
    [tx_hash |-> tx_hash, unique_id |-> unique_id, timestamp |-> timestamp,
     category |-> category, value |-> value, decoded |-> {},
     from_address |-> from_address, to_address |-> to_address,
     raw_contract_address |-> raw_contract_address, raw_address |-> raw_address]

\* TransferEvent.contract_address, features.py 49-57
contract_address_no_fallback(ev) ==
    IF Truthy(ev.raw_contract_address) THEN Lower(ev.raw_contract_address)
    ELSE "None"

contract_address(ev) ==
    IF Truthy(ev.raw_contract_address) THEN Lower(ev.raw_contract_address)
    ELSE IF Truthy(ev.raw_address) THEN Lower(ev.raw_address)
    ELSE "None"

----------------------------------------------------------------------------
(* FeatureCalculator._classify_single, features.py 296-321 *)

\* features.py 24-29
KNOWN_DEX_ROUTERS ==
    {"0x7a250d5630b4cf539739df2c5dacb4c659f2488d",
     "0xe592427a0aece92de3edee1f18e0157c05861564",
     "0x68b3465833fb72a70ecdf485e0e4c7bd8665fc45",
     "0xd9e1ce17f2641f24ae83637ab66a2cca9c378b9f"}

\* The DEX test moved in front of the NFT tests
_classify_single_dex_first(wallet_arg, events) ==
    LET wallet == Lower(wallet_arg)
        categories == {events[i].category : i \in 1..Len(events)}
        contracts == {contract_address(events[i]) : i \in 1..Len(events)} \ {"None"}
        incoming == \E i \in 1..Len(events) : events[i].to_address = wallet
        outgoing == \E i \in 1..Len(events) : events[i].from_address = wallet
    IN  IF \E i \in 1..Len(events) :
              Truthy(events[i].to_address) /\ events[i].to_address \in KNOWN_DEX_ROUTERS
        THEN "SWAP"
        ELSE IF \E i \in 1..Len(events) :
              events[i].category \in {"erc721", "erc1155"} /\ events[i].to_address = wallet
        THEN "MINT"
        ELSE IF \E i \in 1..Len(events) :
              events[i].category \in {"erc721", "erc1155"} /\ events[i].from_address = wallet
        THEN "BURN"
        ELSE IF \E i \in 1..Len(events) :
              events[i].from_address = wallet /\ events[i].to_address = wallet
        THEN "TRANSFER"
        ELSE IF incoming /\ outgoing THEN "SWAP"
        ELSE IF "external" \in categories \/ "internal" \in categories THEN "TRANSFER"
        ELSE IF "erc20" \in categories /\ (outgoing \/ incoming) THEN "TRANSFER"
        ELSE IF contracts # {} THEN "CONTRACT_INTERACTION"
        ELSE "UNKNOWN"

\* The erc20 test without its incoming branch
_classify_single_outgoing_only(wallet_arg, events) ==
    LET wallet == Lower(wallet_arg)
        categories == {events[i].category : i \in 1..Len(events)}
        contracts == {contract_address(events[i]) : i \in 1..Len(events)} \ {"None"}
        incoming == \E i \in 1..Len(events) : events[i].to_address = wallet
        outgoing == \E i \in 1..Len(events) : events[i].from_address = wallet
    IN  IF \E i \in 1..Len(events) :
              events[i].category \in {"erc721", "erc1155"} /\ events[i].to_address = wallet
        THEN "MINT"
        ELSE IF \E i \in 1..Len(events) :
              events[i].category \in {"erc721", "erc1155"} /\ events[i].from_address = wallet
        THEN "BURN"
        ELSE IF \E i \in 1..Len(events) :
              Truthy(events[i].to_address) /\ events[i].to_address \in KNOWN_DEX_ROUTERS
        THEN "SWAP"
        ELSE IF \E i \in 1..Len(events) :
              events[i].from_address = wallet /\ events[i].to_address = wallet
        THEN "TRANSFER"
        ELSE IF incoming /\ outgoing THEN "SWAP"
        ELSE IF "external" \in categories \/ "internal" \in categories THEN "TRANSFER"
        ELSE IF "erc20" \in categories /\ outgoing THEN "TRANSFER"
        ELSE IF contracts # {} THEN "CONTRACT_INTERACTION"
        ELSE "UNKNOWN"

_classify_single(wallet_arg, events) ==
    LET wallet == Lower(wallet_arg)                                         \* 297
        categories == {events[i].category : i \in 1..Len(events)}           \* 298
        contracts ==                                                        \* 299
            {contract_address(events[i]) : i \in 1..Len(events)} \ {"None"}
        incoming == \E i \in 1..Len(events) : events[i].to_address = wallet   \* 308
        outgoing == \E i \in 1..Len(events) : events[i].from_address = wallet \* 309
    IN  IF \E i \in 1..Len(events) :                                        \* 300
              events[i].category \in {"erc721", "erc1155"} /\ events[i].to_address = wallet
        THEN "MINT"
        ELSE IF \E i \in 1..Len(events) :                                   \* 302
              events[i].category \in {"erc721", "erc1155"} /\ events[i].from_address = wallet
        THEN "BURN"
        ELSE IF \E i \in 1..Len(events) :                                   \* 304
              Truthy(events[i].to_address) /\ events[i].to_address \in KNOWN_DEX_ROUTERS
        THEN "SWAP"
        ELSE IF \E i \in 1..Len(events) :                                   \* 306
              events[i].from_address = wallet /\ events[i].to_address = wallet
        THEN "TRANSFER"
        ELSE IF incoming /\ outgoing THEN "SWAP"                            \* 310
        ELSE IF "external" \in categories \/ "internal" \in categories      \* 312
        THEN "TRANSFER"
        ELSE IF "erc20" \in categories /\ (outgoing \/ incoming)            \* 314-318
        THEN "TRANSFER"
        ELSE IF contracts # {} THEN "CONTRACT_INTERACTION"                  \* 319
        ELSE "UNKNOWN"                                                      \* 321

MaxGroup == 2

WalletArgs == {"0xwallet", "0xWALLET"}

\* Sender and receiver of an event: the wallet, another account, a DEX router,
\* no receiver (contract creation)
FromTo ==
    {<<"0xwallet", "0xother">>, <<"0xother", "0xwallet">>, <<"0xwallet", "0xwallet">>,
     <<"0xother", "0xe592427a0aece92de3edee1f18e0157c05861564">>,
     <<"0xwallet", "0xe592427a0aece92de3edee1f18e0157c05861564">>,
     <<"0xother", "0xthird">>, <<"0xother", "None">>}

\* Category with the contract address in raw_contract and in raw["rawContract"]
CategoryContract ==
    {<<"external", "None", "None">>, <<"internal", "None", "None">>,
     <<"erc20", "0xTOKEN", "0xTOKEN">>, <<"erc20", "None", "None">>,
     <<"erc721", "0xnft", "0xnft">>, <<"erc1155", "0xnft", "0xnft">>,
     <<"specialnft", "0xnft", "0xnft">>, <<"specialnft", "None", "0xnft">>,
     <<"specialnft", "None", "None">>}

ClassifyShapes ==
    {Event("0xh1", "u", 0, cc[1], {1}, ft[1], ft[2], cc[2], cc[3]) :
        cc \in CategoryContract, ft \in FromTo}

ClassifyInit ==
    /\ cl_wallet \in WalletArgs
    /\ cl_events \in SeqsUpTo(ClassifyShapes, MaxGroup) \ {<<>>}
    /\ cl_result = ""

\* One call of _classify_single
ClassifySingle ==
    /\ cl_result = ""
    /\ cl_result' = _classify_single(cl_wallet, cl_events)
    /\ UNCHANGED <<cl_wallet, cl_events, batchVars, featureVars, clientVars>>

NextClassify == ClassifySingle

InitClassify == ClassifyInit /\ BatchIdle /\ FeatureIdle /\ ClientIdle

SpecClassify == InitClassify /\ [][NextClassify]_vars

----------------------------------------------------------------------------
(* Claims about _classify_single, checked under SpecClassify *)

Tags == {"MINT", "BURN", "SWAP", "TRANSFER", "CONTRACT_INTERACTION", "UNKNOWN"}

Called == cl_result # ""

Evs == Range(cl_events)

W == Lower(cl_wallet)

\* The classification rules as the specification numbers them
Rule1 == \E e \in Evs : e.category \in {"erc721", "erc1155"} /\ e.to_address = W
Rule2 == \E e \in Evs : e.category \in {"erc721", "erc1155"} /\ e.from_address = W
Rule3 == \E e \in Evs : e.to_address \in KNOWN_DEX_ROUTERS
Rule4 == \E e \in Evs : e.from_address = W /\ e.to_address = W
Rule5 == (\E e \in Evs : e.to_address = W) /\ (\E e \in Evs : e.from_address = W)
Rule6 == \E e \in Evs : e.category \in {"external", "internal"}
Rule7 == \E e \in Evs : e.category = "erc20"

Rules1to6 == Rule1 \/ Rule2 \/ Rule3 \/ Rule4 \/ Rule5 \/ Rule6

WalletIsParty == \E e \in Evs : e.from_address = W \/ e.to_address = W

Resolvable(e) == Truthy(e.raw_contract_address) \/ Truthy(e.raw_address)

HighestPriorityTag ==
    CASE Rule1 -> "MINT"
      [] ~Rule1 /\ Rule2 -> "BURN"
      [] ~Rule1 /\ ~Rule2 /\ Rule3 -> "SWAP"
      [] ~Rule1 /\ ~Rule2 /\ ~Rule3 /\ Rule4 -> "TRANSFER"
      [] ~Rule1 /\ ~Rule2 /\ ~Rule3 /\ ~Rule4 /\ Rule5 -> "SWAP"
      [] OTHER -> "TRANSFER"

\* C7: when rules 1-6 match, the tag is that of the highest-priority matching
\* rule: NFT received (MINT), NFT sent (BURN), receiver is a DEX router (SWAP),
\* self-transfer (TRANSFER), wallet receives and sends (SWAP), external or
\* internal event (TRANSFER).
C7_PriorityOrder == (Called /\ Rules1to6) => cl_result = HighestPriorityTag

\* An NFT received through a DEX router is MINT
C7_Witness ==
    /\ Called /\ Rule1 /\ Rule3 /\ cl_result = "MINT"
    /\ \E e \in Evs : e.category = "erc721" /\ e.to_address = W
    /\ cl_wallet # W

\* C8 as stated: without a match of rules 1-6, a transaction with an erc20
\* event is TRANSFER, also when the wallet is neither sender nor receiver.
C8_Erc20AlwaysTransfer == (Called /\ ~Rules1to6 /\ Rule7) => cl_result = "TRANSFER"

\* C8 as amended: without a match of rules 1-6, a transaction with an erc20
\* event is TRANSFER when the wallet is sender or receiver of one of its
\* events; when it is neither, the tag is CONTRACT_INTERACTION if an event
\* has a contract address and UNKNOWN otherwise.
C8_Erc20TransferIfParty ==
    (Called /\ ~Rules1to6 /\ Rule7) =>
        cl_result = IF WalletIsParty THEN "TRANSFER"
                    ELSE IF \E e \in Evs : Resolvable(e) THEN "CONTRACT_INTERACTION"
                    ELSE "UNKNOWN"

\* An incoming erc20 event with a contract address
C8_Witness ==
    /\ Called /\ ~Rules1to6 /\ cl_result = "TRANSFER"
    /\ \E e \in Evs : e.category = "erc20" /\ e.to_address = W /\ Resolvable(e)
    /\ \A e \in Evs : e.from_address # W

----------------------------------------------------------------------------
(* FeatureCalculator.compute_wallet_features, features.py 153-224 *)

\* The single element of an optional number that is not None
The(opt) == CHOOSE x \in opt : TRUE

\* list.sort(key=lambda e: e.timestamp, reverse=True): stable, newest first
SortDesc(s) ==
    LET before(i) == {j \in 1..Len(s) :
                        \/ s[j].timestamp > s[i].timestamp
                        \/ s[j].timestamp = s[i].timestamp /\ j < i}
    IN  [k \in 1..Len(s) |-> s[CHOOSE i \in 1..Len(s) : Cardinality(before(i)) = k - 1]]

_combine_events_keep_all(year, recent) == SortDesc(year \o recent)

\* FeatureCalculator._combine_events, features.py 231-244: a dict keyed by
\* unique_id keeps the position of a key's first event and the value of its
\* last one; the values are then sorted newest first.
_combine_events(year, recent) ==
    LET all == year \o recent
        key(e) == IF Truthy(e.unique_id) THEN e.unique_id
                  ELSE e.tx_hash \o ":" \o ToString(e.timestamp)
        first == {i \in 1..Len(all) : \A j \in 1..(i - 1) : key(all[j]) # key(all[i])}
        last(i) == CHOOSE j \in 1..Len(all) :
                      /\ key(all[j]) = key(all[i])
                      /\ \A k \in (j + 1)..Len(all) : key(all[k]) # key(all[i])
        nth(k) == CHOOSE i \in first : Cardinality({j \in first : j < i}) = k - 1
    IN  SortDesc([k \in 1..Cardinality(first) |-> all[last(nth(k))]])

\* PriceService.get_price as compute_wallet_features sees it: a price in
\* cents per unit at a timestamp, or None. The native asset is priced when
\* native_priced, a token contract always.
NativeUsd(ts) == 100000 + 10000 * (ts % 2)

TokenUsd(ts) == 300

get_price(contract, ts) ==
    IF contract = "None"
    THEN IF native_priced THEN {NativeUsd(ts)} ELSE {}
    ELSE {TokenUsd(ts)}

\* FeatureCalculator._event_usd_value, features.py 246-260
_event_usd_value(ev) ==
    LET amount == IF ev.value # {} THEN ev.value ELSE ev.decoded
        price == get_price(contract_address(ev), ev.timestamp)
    IN  IF amount = {} \/ amount = {0} THEN {0}
        ELSE IF price = {} THEN {}
        ELSE {The(amount) * The(price)}

\* float(value or 0.0), features.py 176
FloatOrZero(v) == IF v = {} THEN 0 ELSE The(v)

\* event_usd, features.py 173-177: [cache, usd, calls] after one call
event_usd_not_memoized(cache, ev) ==
    LET v == FloatOrZero(_event_usd_value(ev))
    IN  [cache |-> Put(cache, ev.unique_id, v), usd |-> v, calls |-> 1]

event_usd(cache, ev) ==
    IF ev.unique_id \in DOMAIN cache
    THEN [cache |-> cache, usd |-> cache[ev.unique_id], calls |-> 0]
    ELSE LET v == FloatOrZero(_event_usd_value(ev))
         IN  [cache |-> Put(cache, ev.unique_id, v), usd |-> v, calls |-> 1]

\* if ev.timestamp < cutoff: continue, features.py 183-184
InWindowInverted(ev, cutoff) == ev.timestamp < cutoff

InWindowStrict(ev, cutoff) == ev.timestamp > cutoff

InWindow(ev, cutoff) == ~(ev.timestamp < cutoff)

\* The inner loop of features.py 182-186 from event i on; acc is
\* [hashes, volume, cache, calls]
RECURSIVE ScanEvents(_, _, _, _)
ScanEvents(events, i, cutoff, acc) ==
    IF i > Len(events) THEN acc
    ELSE IF ~InWindow(events[i], cutoff) THEN ScanEvents(events, i + 1, cutoff, acc)
    ELSE LET r == event_usd(acc.cache, events[i])
         IN  ScanEvents(events, i + 1, cutoff,
                        [hashes |-> acc.hashes \cup {events[i].tx_hash},
                         volume |-> acc.volume + r.usd,
                         cache |-> r.cache,
                         calls |-> acc.calls + r.calls])

\* The window loop of features.py 179-190 from window w on; st is
\* [counts, volumes, cache, calls]
RECURSIVE ScanWindows(_, _, _, _)
ScanWindows(events, ref, w, st) ==
    IF w > Len(WINDOWS) THEN st
    ELSE LET label == WINDOWS[w].label
             cutoff == ref - WINDOWS[w].days
             r == ScanEvents(events, 1, cutoff,
                             [hashes |-> {}, volume |-> st.volumes[label],
                              cache |-> st.cache, calls |-> st.calls])
         IN  ScanWindows(events, ref, w + 1,
                         [counts |-> [st.counts EXCEPT ![label] = Cardinality(r.hashes)],
                          volumes |-> [st.volumes EXCEPT ![label] = r.volume],
                          cache |-> r.cache,
                          calls |-> r.calls])

\* tx_events, features.py 168-170: the events of the 12-month set per hash,
\* in list order
TxHashes(events) == {events[i].tx_hash : i \in 1..Len(events)}

RECURSIVE SelectHash(_, _)
SelectHash(events, h) ==
    IF events = <<>> THEN <<>>
    ELSE IF Head(events).tx_hash = h
         THEN <<Head(events)>> \o SelectHash(Tail(events), h)
         ELSE SelectHash(Tail(events), h)

tx_events(events) == [h \in TxHashes(events) |-> SelectHash(events, h)]

\* int(x, 16), features.py 350-351, on a string given as its hex digits
\* (a digit above 15 stands for a character that is no hex digit): the value,
\* or None for ValueError
RECURSIVE HexInt(_)
HexInt(digits) ==
    IF digits = <<>> THEN {0}
    ELSE LET init == HexInt(SubSeq(digits, 1, Len(digits) - 1))
             d == digits[Len(digits)]
         IN  IF init = {} \/ d > 15 THEN {} ELSE {16 * The(init) + d}

\* A transaction receipt; found is FALSE for None, a field is <<>> when the
\* receipt lacks it. Gas prices are in gwei.
Receipt(found, gasUsed, effectiveGasPrice, gasPrice) ==
    [found |-> found, gasUsed |-> gasUsed,
     effectiveGasPrice |-> effectiveGasPrice, gasPrice |-> gasPrice]

\* FeatureCalculator.get_transaction_receipt, features.py 87-93
get_transaction_receipt(tx_hash) ==
    IF tx_hash \in DOMAIN receipts THEN receipts[tx_hash]
    ELSE Receipt(FALSE, <<>>, <<>>, <<>>)

\* The sender loop of features.py 333-337: the from_address of the last
\* event that has one
RECURSIVE SenderOf(_, _)
SenderOf(events, sender) ==
    IF events = <<>> THEN sender
    ELSE SenderOf(Tail(events),
                  IF Truthy(Head(events).from_address) THEN Head(events).from_address
                  ELSE sender)

\* The timestamp loop of features.py 334-339: the newest timestamp
RECURSIVE TimestampOf(_, _)
TimestampOf(events, timestamp) ==
    IF events = <<>> THEN timestamp
    ELSE TimestampOf(Tail(events),
                     IF timestamp = {} \/ Head(events).timestamp > The(timestamp)
                     THEN {Head(events).timestamp} ELSE timestamp)

\* eth_spent = gas_used * effective_price / 1e18, features.py 354, in units
\* of 0.00001 native coins (the price being in gwei)
EthSpent(gas_used, effective_price) == (gas_used * effective_price) \div 10000

\* eth_spent * price.usd, features.py 360, in cents
UsdOf(eth_spent, price_usd) == (eth_spent * price_usd) \div 100000

\* The body of the loop of features.py 331-360 for one transaction: the
\* amount added to total_usd
GasFeeOfTx(wallet, tx_hash, events, ref) ==
    LET wallet_lower == Lower(wallet)
        sender == SenderOf(events, "None")
        timestamp == TimestampOf(events, {})
        receipt == get_transaction_receipt(tx_hash)
        gas_used_hex == receipt.gasUsed
        eff_price_hex == IF receipt.effectiveGasPrice # <<>>
                         THEN receipt.effectiveGasPrice ELSE receipt.gasPrice
        gas_used == HexInt(gas_used_hex)
        effective_price == HexInt(eff_price_hex)
        at == IF timestamp = {} THEN ref ELSE The(timestamp)
        price == get_price("None", at)
    IN  IF sender # wallet_lower \/ ~Truthy(tx_hash) THEN 0          \* 340
        ELSE IF ~receipt.found THEN 0                                \* 343
        ELSE IF gas_used_hex = <<>> \/ eff_price_hex = <<>> THEN 0   \* 347
        ELSE IF gas_used = {} \/ effective_price = {} THEN 0         \* 352
        ELSE IF price = {} THEN 0                                    \* 358
        ELSE UsdOf(EthSpent(The(gas_used), The(effective_price)), The(price))

\* FeatureCalculator._total_gas_fee, features.py 323-361
_total_gas_fee(wallet, txs, ref) ==
    SumOver(DOMAIN txs, [h \in DOMAIN txs |-> GasFeeOfTx(wallet, h, txs[h], ref)])

\* _classify_transactions, features.py 290-294
_classify_transactions(wallet, txs) ==
    {_classify_single(wallet, txs[h]) : h \in DOMAIN txs}

\* _classify_events, features.py 281-288
_classify_events(events, wallet) ==
    _classify_transactions(wallet, tx_events(events))

\* str.upper() on the categories of the model
Upper(c) ==
    CASE c = "external" -> "EXTERNAL"
      [] c = "internal" -> "INTERNAL"
      [] c = "erc20" -> "ERC20"
      [] c = "erc721" -> "ERC721"
      [] c = "erc1155" -> "ERC1155"
      [] c = "specialnft" -> "SPECIALNFT"
      [] OTHER -> c

\* round(monthly_counts / 12, 4), features.py 192 and 210, in units of 0.0001
RoundCountAvg(total) == (2 * total * 10000 + 12) \div 24

\* round(monthly_volume / 12, 4), features.py 193 and 211: cents in, units of
\* 0.0001 of the currency out
RoundVolumeAvg(cents) == (2 * cents * 100 + 12) \div 24

\* datetime.isoformat(), features.py 196
IsoFormat(ts) == "day " \o ToString(ts)

\* f"{delta.total_seconds() / 3600:.2f}", features.py 199-200
HoursText(delta_days) == ToString(delta_days * 24) \o ".00"

MaxEvents == 2

\* The day of the run
Today == 365 + 35

ZeroCounts == [l \in LabelSet |-> 0]

\* Lines 154-171: the two sets arrive, the combined list is cached, the empty
\* case returns, the sets are sorted and the accumulators initialised
Fetch ==
    /\ fpc = "start"
    /\ transactions_cache' = _combine_events(events_year, events_250)
    /\ IF events_year = <<>> /\ events_250 = <<>>
       THEN /\ features' = _empty_features(fwallet)
            /\ fpc' = "returned"
            /\ UNCHANGED <<events_year, events_250, counts, volumes, usd_cache>>
       ELSE /\ events_year' = SortDesc(events_year)
            /\ events_250' = SortDesc(events_250)
            /\ counts' = ZeroCounts
            /\ volumes' = ZeroCounts
            /\ usd_cache' = EmptyMap
            /\ fpc' = "fetched"
            /\ UNCHANGED features
    /\ UNCHANGED <<fwallet, reference, receipts, native_priced, include_gas_fees,
                   priced, gas_fee_usd>>
    /\ UNCHANGED <<batchVars, classifyVars, clientVars>>

\* Lines 179-190: the four windows
AggregateWindows ==
    /\ fpc = "fetched"
    /\ LET st == ScanWindows(events_year, reference, 1,
                             [counts |-> counts, volumes |-> volumes,
                              cache |-> usd_cache, calls |-> priced])
       IN  /\ counts' = st.counts
           /\ volumes' = st.volumes
           /\ usd_cache' = st.cache
           /\ priced' = st.calls
    /\ fpc' = "windows"
    /\ UNCHANGED <<fwallet, events_year, events_250, reference, receipts,
                   native_priced, include_gas_fees, transactions_cache,
                   gas_fee_usd, features>>
    /\ UNCHANGED <<batchVars, classifyVars, clientVars>>

\* Lines 205-207: the gas fee
TotalGasFee ==
    /\ fpc = "windows"
    /\ gas_fee_usd' = IF include_gas_fees
                      THEN _total_gas_fee(fwallet, tx_events(events_year), reference)
                      ELSE 0
    /\ fpc' = "gas"
    /\ UNCHANGED <<fwallet, events_year, events_250, reference, receipts,
                   native_priced, include_gas_fees, transactions_cache, usd_cache,
                   priced, counts, volumes, features>>
    /\ UNCHANGED <<batchVars, classifyVars, clientVars>>

\* Lines 191-204 and 208-224: the record
AssembledFeatures ==
    LET monthly_counts == counts["12M"]
        monthly_volume == volumes["12M"]
        has_last == events_year # <<>> \/ events_250 # <<>>
        last_tx == IF events_year # <<>> THEN events_year[1] ELSE events_250[1]
        has_second == Len(events_year) > 1 \/ Len(events_250) > 1
        second_last == IF Len(events_year) > 1 THEN events_year[2] ELSE events_250[2]
        categories == {Upper(events_250[i].category) :
                          i \in {j \in 1..Len(events_250) : Truthy(events_250[j].category)}}
        types_year == _classify_transactions(fwallet, tx_events(events_year))
        types_recent == _classify_events(events_250, fwallet)
    IN  [Wallet |-> fwallet,
         MonthlyTxCountAvg |-> RoundCountAvg(monthly_counts),
         MonthlyTxVolumeAvg |-> RoundVolumeAvg(monthly_volume),
         LastTransactionDate |-> IF has_last THEN IsoFormat(last_tx.timestamp) ELSE "",
         TimeBetweenLast2 |->
             IF has_last /\ has_second
             THEN HoursText(last_tx.timestamp - second_last.timestamp) ELSE "",
         TokenCategories |-> categories,
         TxTypes |-> types_year \cup types_recent,
         TotalGasFee |-> gas_fee_usd,
         error |-> "",
         TotalTxCount |-> counts,
         TotalTxVolume |-> volumes]

Assemble ==
    /\ fpc = "gas"
    /\ features' = AssembledFeatures
    /\ fpc' = "returned"
    /\ UNCHANGED <<fwallet, events_year, events_250, reference, receipts,
                   native_priced, include_gas_fees, transactions_cache, usd_cache,
                   priced, counts, volumes, gas_fee_usd>>
    /\ UNCHANGED <<batchVars, classifyVars, clientVars>>

\* ---- the inputs of the model

\* unique_id of the event at position i of the provider's list
WithIds(s) == [i \in 1..Len(s) |-> [s[i] EXCEPT !.unique_id = "u" \o ToString(i)]]

\* Ages in days that fall inside and outside each window
Ages == {30, 31, 40, 100, 200, 366}

\* Native transfers of the wallet in two transactions (amount 1 in the first,
\* 2 in the second), one without an amount, and one token transfer
WindowShapes ==
    {Event(h, "", Today - age, "external", {IF h = "0xh1" THEN 1 ELSE 2}, "0xwallet", "0xother", "None", "None") :
        h \in {"0xh1", "0xh2"}, age \in Ages}
    \cup {Event("0xh1", "", Today - 40, "external", {}, "0xwallet", "0xother", "None", "None"),
          Event("0xh2", "", Today - 100, "erc20", {3}, "0xother", "0xwallet", "0xTOKEN", "0xTOKEN")}

\* A transfer older than twelve months that is only in the latest-250 set
OldEvent ==
    Event("0xh3", "old", Today - 400, "erc20", {5}, "0xother", "0xwallet", "0xTOKEN", "0xTOKEN")

\* Events of two transactions (and one without a hash) by sender
GasShapes ==
    {Event(h, "", Today - 1, "external", {1}, from, IF from = "0xwallet" THEN "0xother" ELSE "0xwallet", "None", "None") :
        h \in {"0xh1", "0xh2"}, from \in {"0xwallet", "0xother", "None"}}
    \cup {Event("0xh1", "", Today - 2, "external", {1}, "0xwallet", "0xother", "None", "None"),
          Event("", "", Today - 1, "external", {1}, "0xwallet", "0xother", "None", "None")}

\* gasUsed 21000 (0x5208) at 100 gwei (0x64)
ReceiptOk == Receipt(TRUE, <<5, 2, 0, 8>>, <<6, 4>>, <<>>)

\* gasUsed 50000 (0xc350) with only gasPrice, 50 gwei (0x32)
ReceiptLegacy == Receipt(TRUE, <<12, 3, 5, 0>>, <<>>, <<3, 2>>)

ReceiptVariants ==
    {ReceiptOk, ReceiptLegacy,
     Receipt(FALSE, <<>>, <<>>, <<>>),
     Receipt(TRUE, <<>>, <<6, 4>>, <<>>),
     Receipt(TRUE, <<5, 2, 16, 8>>, <<6, 4>>, <<>>)}

ReceiptsWith(r) ==
    [h \in {"0xh1", "0xh2", ""} |->
        IF h = "0xh1" THEN r ELSE IF h = "0xh2" THEN ReceiptLegacy ELSE ReceiptOk]

WindowInputs ==
    {[year |-> WithIds(s), recent |-> WithIds(s) \o tail,
      receipts |-> ReceiptsWith(ReceiptOk), native |-> n, gas |-> TRUE] :
        s \in SeqsUpTo(WindowShapes, MaxEvents), tail \in {<<>>, <<OldEvent>>},
        n \in BOOLEAN}

\* Receipt of the first transaction, native price present, include_gas_fees
GasOptions ==
    {<<r, n, TRUE>> : r \in ReceiptVariants, n \in BOOLEAN}
    \cup {<<ReceiptOk, TRUE, FALSE>>}

GasInputs ==
    {[year |-> WithIds(s), recent |-> WithIds(s),
      receipts |-> ReceiptsWith(o[1]), native |-> o[2], gas |-> o[3]] :
        s \in SeqsUpTo(GasShapes, MaxEvents), o \in GasOptions}

InitFeatures ==
    /\ BatchIdle
    /\ ClassifyIdle
    /\ ClientIdle
    /\ \E inp \in WindowInputs \cup GasInputs :
          /\ events_year = inp.year
          /\ events_250 = inp.recent
          /\ receipts = inp.receipts
          /\ native_priced = inp.native
          /\ include_gas_fees = inp.gas
    /\ fpc = "start"
    /\ fwallet = "0xwallet"
    /\ reference = Today
    /\ transactions_cache = <<>>
    /\ usd_cache = EmptyMap
    /\ priced = 0
    /\ counts = EmptyMap
    /\ volumes = EmptyMap
    /\ gas_fee_usd = 0
    /\ features = <<>>

NextFeatures ==
    \/ Fetch
    \/ AggregateWindows
    \/ TotalGasFee
    \/ Assemble

SpecFeatures == InitFeatures /\ [][NextFeatures]_vars

----------------------------------------------------------------------------
(* Claims about compute_wallet_features, checked under SpecFeatures *)

Returned == fpc = "returned"

\* Positions of the 12-month set with timestamp >= reference - days
Within(days) ==
    {i \in 1..Len(events_year) : events_year[i].timestamp >= reference - days}

DistinctHashes(days) == {events_year[i].tx_hash : i \in Within(days)}

\* The fiat value of an event: its valuation, 0 when there is none
FiatValue(ev) == FloatOrZero(_event_usd_value(ev))

FiatSum(days) ==
    SumOver(Within(days), [i \in Within(days) |-> FiatValue(events_year[i])])

\* C5: for each window W, Total Tx Count (W) is the number of distinct
\* transaction hashes among the events of the 12-month set with timestamp >=
\* reference - W days, and Total Tx Volume (W) the sum of the fiat values of
\* those events, counted per event; the latest-250 set affects neither.
C5_WindowTotals ==
    Returned =>
        \A w \in 1..Len(WINDOWS) :
            /\ features.TotalTxCount[WINDOWS[w].label]
                  = Cardinality(DistinctHashes(WINDOWS[w].days))
            /\ features.TotalTxVolume[WINDOWS[w].label] = FiatSum(WINDOWS[w].days)

\* Two valued events of one transaction, 40 days old, counted in 3M and not
\* in 1M, beside a transfer that is only in the latest-250 set
C5_Witness ==
    /\ Returned
    /\ Len(events_year) = 2
    /\ events_year[1].tx_hash = events_year[2].tx_hash
    /\ \A i \in 1..2 : events_year[i].timestamp = reference - 40
    /\ \A i \in 1..2 : FiatValue(events_year[i]) > 0
    /\ features.TotalTxCount["1M"] = 0
    /\ features.TotalTxCount["3M"] = 1
    /\ features.TotalTxCount["12M"] = 1
    /\ features.TotalTxVolume["3M"] = 2 * FiatValue(events_year[1])
    /\ \E i \in 1..Len(events_250) : events_250[i].unique_id = "old"

\* C6: the returned record satisfies Total Tx Count (1M) <= (3M) <= (6M) <= (12M).
C6_CountsMonotone ==
    Returned =>
        /\ features.TotalTxCount["1M"] <= features.TotalTxCount["3M"]
        /\ features.TotalTxCount["3M"] <= features.TotalTxCount["6M"]
        /\ features.TotalTxCount["6M"] <= features.TotalTxCount["12M"]

C6_Witness ==
    /\ Returned
    /\ features.TotalTxCount["1M"] < features.TotalTxCount["3M"]
    /\ features.TotalTxCount["6M"] < features.TotalTxCount["12M"]

\* The hashes the claim counts: distinct, non-empty, with at least one event
\* sent by the wallet, a receipt with gas fields and a native price
EventsOf(h) == {i \in 1..Len(events_year) : events_year[i].tx_hash = h}

TxTimestamp(h) ==
    CHOOSE t \in {events_year[i].timestamp : i \in EventsOf(h)} :
        \A i \in EventsOf(h) : events_year[i].timestamp <= t

ReceiptPrice(r) == IF r.effectiveGasPrice # <<>> THEN r.effectiveGasPrice ELSE r.gasPrice

Usable(r) ==
    /\ r.found
    /\ r.gasUsed # <<>> /\ HexInt(r.gasUsed) # {}
    /\ ReceiptPrice(r) # <<>> /\ HexInt(ReceiptPrice(r)) # {}

SentByWallet ==
    {h \in TxHashes(events_year) :
        /\ h # ""
        /\ \E i \in EventsOf(h) : events_year[i].from_address = Lower(fwallet)
        /\ Usable(receipts[h])
        /\ native_priced}

ClaimedGasFee ==
    SumOver(SentByWallet,
            [h \in SentByWallet |->
                UsdOf(EthSpent(The(HexInt(receipts[h].gasUsed)),
                               The(HexInt(ReceiptPrice(receipts[h])))),
                      NativeUsd(TxTimestamp(h)))])

\* C10: Total Gas Fee (USD) is the sum, over every distinct non-empty hash of
\* the 12-month set with at least one event sent by the wallet (and a usable
\* receipt and a native price), of gasUsed x effectiveGasPrice / 10^18 times
\* the native price at the transaction's timestamp, for every order of the
\* events of a transaction and whoever sent its other events.
C10_GasFeeOfEverySentTx ==
    (Returned /\ include_gas_fees) => features.TotalGasFee = ClaimedGasFee

\* gasUsed 21000 at 100 gwei priced at 1000 contributes 2.1
C10_Example ==
    /\ Returned /\ include_gas_fees
    /\ Len(events_year) = 1
    /\ events_year[1].tx_hash = "0xh1"
    /\ events_year[1].from_address = "0xwallet"
    /\ receipts["0xh1"] = ReceiptOk
    /\ NativeUsd(events_year[1].timestamp) = 100000
    /\ features.TotalGasFee = 210

\* ---- C28

\* The window loop has run
Aggregated ==
    /\ fpc \in {"windows", "gas", "returned"}
    /\ ~(events_year = <<>> /\ events_250 = <<>>)

\* The widest window
WidestDays == WINDOWS[Len(WINDOWS)].days

IdsWithin(days) == {events_year[i].unique_id : i \in Within(days)}

\* C28: within one compute_wallet_features call _event_usd_value is called
\* once per distinct unique_id of the events that fall in a window, also for
\* an event without a price, whose memoized value is 0; every window adds,
\* for each of its events, the memoized value of the event's unique_id.
C28_ValuedOnce ==
    Aggregated =>
        /\ DOMAIN usd_cache = IdsWithin(WidestDays)
        /\ priced = Cardinality(IdsWithin(WidestDays))
        /\ \A i \in Within(WidestDays) :
              usd_cache[events_year[i].unique_id] = FiatValue(events_year[i])
        /\ \A w \in 1..Len(WINDOWS) :
              volumes[WINDOWS[w].label] =
                 SumOver(Within(WINDOWS[w].days),
                         [i \in Within(WINDOWS[w].days) |->
                             usd_cache[events_year[i].unique_id]])

\* Two events that are in all four windows, the native asset without a
\* price: each is valued once and memoized as 0
C28_Witness ==
    /\ Aggregated
    /\ ~native_priced
    /\ Len(events_year) = 2
    /\ Within(WINDOWS[1].days) = {1, 2}
    /\ \A i \in 1..2 : _event_usd_value(events_year[i]) = {}
    /\ \A i \in 1..2 : usd_cache[events_year[i].unique_id] = 0
    /\ priced = 2

----------------------------------------------------------------------------
(* FeatureCalculator._decode_value, features.py 262-279 *)

\* A JSON scalar: null, a number, or a string given as its characters
\* (0-9 the decimal digits, 10-15 the letters a-f, above 15 anything else)
Json(type, int, chars) == [type |-> type, int |-> int, chars |-> chars]

JsonNull == Json("null", 0, <<>>)

JsonInt(n) == Json("int", n, <<>>)

JsonStr(chars) == Json("str", 0, chars)

\* int(text) in base 10: the value, or None for ValueError
RECURSIVE DecInt(_)
DecInt(chars) ==
    IF chars = <<>> THEN {}
    ELSE LET d == chars[Len(chars)]
             init == SubSeq(chars, 1, Len(chars) - 1)
         IN  IF d > 9 THEN {}
             ELSE IF init = <<>> THEN {d}
             ELSE IF DecInt(init) = {} THEN {} ELSE {10 * The(DecInt(init)) + d}

\* value_int / (10**decimals_int), features.py 279, as the exact decimal
\* fraction mant / 10^exp in lowest terms
RECURSIVE Quotient(_, _)
Quotient(value_int, decimals_int) ==
    IF value_int = 0 THEN [mant |-> 0, exp |-> 0]
    ELSE IF decimals_int > 0 /\ value_int % 10 = 0
    THEN Quotient(value_int \div 10, decimals_int - 1)
    ELSE [mant |-> value_int, exp |-> decimals_int]

\* Token metadata as get_token_metadata returns it: None, an empty dict, or a
\* dict with (possibly null) decimals
Meta(kind, decimals) == [kind |-> kind, decimals |-> decimals]

\* AlchemyClient.get_token_metadata, alchemy.py 95-103: an AlchemyError and a
\* result that is no dict both give None
client_get_token_metadata(provider) ==
    IF provider.outcome \in {"error", "nodict"} THEN Meta("None", JsonNull)
    ELSE IF provider.outcome = "empty" THEN Meta("empty", JsonNull)
    ELSE Meta("dict", provider.decimals)

\* FeatureCalculator.get_token_metadata, features.py 79-85. An exception that
\* is no AlchemyError (a transport failure left after the retries) passes
\* through both functions.
get_token_metadata(cache, contract, provider) ==
    IF contract \in DOMAIN cache
    THEN [raised |-> FALSE, meta |-> cache[contract], cache |-> cache]
    ELSE IF provider.outcome = "transport"
    THEN [raised |-> TRUE, meta |-> Meta("None", JsonNull), cache |-> cache]
    ELSE LET meta == client_get_token_metadata(provider)
         IN  [raised |-> FALSE, meta |-> meta,
              cache |-> IF meta.kind = "dict" THEN Put(cache, contract, meta) ELSE cache]

\* int(decimals) if decimals is not None else 18, with ValueError -> 18,
\* features.py 275-278
DecimalsIntDefaultZero(decimals) ==
    IF decimals.type = "int" THEN decimals.int
    ELSE IF decimals.type = "str" /\ DecInt(decimals.chars) # {} THEN The(DecInt(decimals.chars))
    ELSE 0

DecimalsInt(decimals) ==
    IF decimals.type = "null" THEN 18
    ELSE IF decimals.type = "int" THEN decimals.int
    ELSE IF DecInt(decimals.chars) # {} THEN The(DecInt(decimals.chars))
    ELSE 18

\* FeatureCalculator._decode_value: [raised, value, cache]
_decode_value(ev, cache, provider) ==
    LET none == [raised |-> FALSE, value |-> {}, cache |-> cache]
    IN  IF ev.raw_value = {} \/ ev.raw_value = {<<>>} THEN none
        ELSE IF HexInt(The(ev.raw_value)) = {} THEN none
        ELSE LET value_int == The(HexInt(The(ev.raw_value)))
                 embedded == ev.decimals
                 fetch == embedded.type = "null" /\ Truthy(contract_address(ev))
                 r == get_token_metadata(cache, contract_address(ev), provider)
             IN  IF ~fetch
                 THEN [raised |-> FALSE, cache |-> cache,
                       value |-> {Quotient(value_int, DecimalsInt(embedded))}]
                 ELSE IF r.raised
                 THEN [raised |-> TRUE, value |-> {}, cache |-> r.cache]
                 ELSE [raised |-> FALSE, cache |-> r.cache,
                       value |-> {Quotient(value_int,
                                    DecimalsInt(IF r.meta.kind = "dict" THEN r.meta.decimals
                                                ELSE embedded))}]

\* ---- the inputs of the model

\* None, "", 0x3e8 (1000), 0x5, 0x1g
RawValues == {{}, {<<>>}, {<<3, 14, 8>>}, {<<5>>}, {<<1, 16>>}}

\* null, 0, 3, "3", "0x12"
EmbeddedDecimals ==
    {JsonNull, JsonInt(0), JsonInt(3), JsonStr(<<3>>), JsonStr(<<0, 33, 1, 2>>)}

\* null, 2, "ab"
MetadataDecimals == {JsonNull, JsonInt(2), JsonStr(<<10, 11>>)}

DecodeEvents ==
    {[raw_value |-> v, decimals |-> d, raw_contract_address |-> c[1], raw_address |-> c[2]] :
        v \in RawValues, d \in EmbeddedDecimals,
        c \in {<<"None", "None">>, <<"0xTOKEN", "None">>, <<"None", "0xtoken">>}}

Providers ==
    {[outcome |-> o, decimals |-> JsonNull] : o \in {"error", "nodict", "empty", "transport"}}
    \cup {[outcome |-> "dict", decimals |-> d] : d \in MetadataDecimals}

\* Nothing cached, or the token's metadata (6 decimals) from an earlier call
MetadataCaches == {EmptyMap, Put(EmptyMap, "0xtoken", Meta("dict", JsonInt(6)))}

InitDecode ==
    /\ BatchIdle /\ ClassifyIdle /\ FeatureIdle /\ IntakeIdle
    /\ PriceIdle /\ ParseIdle /\ RetryIdle
    /\ GateIdle /\ GatherIdle /\ NormalizeIdle /\ CombineIdle
    /\ dc_event \in DecodeEvents
    /\ dc_provider \in Providers
    /\ _metadata_cache \in MetadataCaches
    /\ dc_result = <<>>

DecodeValue ==
    /\ dc_result = <<>>
    /\ LET r == _decode_value(dc_event, _metadata_cache, dc_provider)
       IN  /\ dc_result' = [raised |-> r.raised, value |-> r.value]
           /\ _metadata_cache' = r.cache
    /\ UNCHANGED <<dc_event, dc_provider>>
    /\ UNCHANGED <<intakeVars, batchVars, classifyVars, featureVars, priceVars, parseVars,
                   retryVars, gateVars, gatherVars, normalizeVars, combineVars>>

NextDecode == DecodeValue

SpecDecode == InitDecode /\ [][NextDecode]_vars

\* ---- C11

Decoded == dc_result # <<>>

\* The raw value is a hex number
HexValue == dc_event.raw_value \notin {{}, {<<>>}} /\ HexInt(The(dc_event.raw_value)) # {}

\* The event's contract address
DecodeContract ==
    IF dc_event.raw_contract_address # "None" THEN Lower(dc_event.raw_contract_address)
    ELSE IF dc_event.raw_address # "None" THEN Lower(dc_event.raw_address)
    ELSE "None"

\* The call has to ask the client, and the request fails in transport
TransportFailure ==
    /\ HexValue /\ dc_event.decimals = JsonNull /\ DecodeContract # "None"
    /\ DecodeContract \notin DOMAIN _metadata_cache
    /\ dc_provider.outcome = "transport"

\* Usable decimals: a number, or a string of decimal digits
UsableDecimals(j) == j.type = "int" \/ (j.type = "str" /\ DecInt(j.chars) # {})

NumberOf(j) == IF j.type = "int" THEN j.int ELSE The(DecInt(j.chars))

\* The decimals of the token metadata the calculator holds for the event's
\* contract after the call (fetched by it or by an earlier call), if any
MetadataDecimalsOfContract ==
    IF DecodeContract \in DOMAIN _metadata_cache
    THEN _metadata_cache[DecodeContract].decimals
    ELSE JsonNull

ClaimedDecimals ==
    LET chosen == IF dc_event.decimals # JsonNull THEN dc_event.decimals
                  ELSE MetadataDecimalsOfContract
    IN  IF UsableDecimals(chosen) THEN NumberOf(chosen) ELSE 18

----------------------------------------------------------------------------
(* PriceService.get_price, pricing.py 64-195 *)

\* Timestamps are whole minutes; the registry id of the native asset
ETH_CMC_ID == 1027

\* The registry id the provider knows the token contract by
TokenId == 825

\* The one provider every request URL is built from, pricing.py 15, 163, 175
\* and 185
COINMARKETCAP_BASE == "https://pro-api.coinmarketcap.com"

\* TokenPrice, pricing.py 21-26
TokenPrice(usd, timestamp) == [usd |-> usd, timestamp |-> timestamp]

\* What the provider does with one request once the retries are over:
\* "raise" (HTTP error, timeout, unreadable body), "empty" (404, or a payload
\* without a usable entry), or a payload with the token id ("id") or a USD
\* quote ("quote"). The quote the provider has for an asset depends on the
\* endpoint and on the minute asked for.
QuoteUsd(req, timestamp) ==
    IF req[2] = ETH_CMC_ID
    THEN IF req[1] = "historical" THEN 1000 + timestamp ELSE 1200
    ELSE IF req[1] = "historical" THEN 3 + timestamp ELSE 5

\* PriceService._date_key, pricing.py 67-70: "%Y-%m-%d-%H" of the UTC time
_date_key(timestamp) == ToString(timestamp \div 60)

\* PriceService._cache_key, pricing.py 64-65
_cache_key(asset_id, date_key) == asset_id \o ":" \o date_key

\* PriceService._request behind async_retry, pricing.py 95-126: without an
\* API key it returns {} and asks nobody
_request(req, answer) ==
    IF ~api_key
    THEN [raised |-> FALSE, data |-> "empty", asked |-> <<>>]
    ELSE [raised |-> answer = "raise", data |-> answer,
          asked |-> <<[request |-> req, answer |-> answer,
                       base |-> COINMARKETCAP_BASE]>>]

\* PriceService._parse_contract_token_id, pricing.py 197-223
_parse_contract_token_id(data) == IF data = "id" THEN {TokenId} ELSE {}

\* PriceService._get_contract_token_id, pricing.py 181-195: [token_id, ids, asked]
_get_contract_token_id_retrying_failures(ids, contract, answers) ==
    LET normalized == Lower(contract)
        r == _request(<<"info", 0>>, answers.info)
        token_id == IF r.raised THEN {} ELSE _parse_contract_token_id(r.data)
    IN  IF normalized \in DOMAIN ids /\ ids[normalized] # {}
        THEN [token_id |-> ids[normalized], ids |-> ids, asked |-> <<>>]
        ELSE [token_id |-> token_id, ids |-> Put(ids, normalized, token_id),
              asked |-> r.asked]

_get_contract_token_id(ids, contract, answers) ==
    LET normalized == Lower(contract)
        r == _request(<<"info", 0>>, answers.info)
        token_id == IF r.raised THEN {} ELSE _parse_contract_token_id(r.data)
    IN  IF normalized \in DOMAIN ids
        THEN [token_id |-> ids[normalized], ids |-> ids, asked |-> <<>>]
        ELSE [token_id |-> token_id, ids |-> Put(ids, normalized, token_id),
              asked |-> r.asked]

\* PriceService._fetch_historical_price and _fetch_latest_price, pricing.py
\* 153-179, with their parsers: [raised, price, asked]
_fetch_quote(req, answer, timestamp) ==
    LET r == _request(req, answer)
    IN  [raised |-> r.raised,
         price |-> IF ~r.raised /\ r.data = "quote"
                   THEN {TokenPrice(QuoteUsd(req, timestamp), timestamp)} ELSE {},
         asked |-> r.asked]

\* PriceService._fetch_price_for_id, pricing.py 147-151
_fetch_price_for_id(token_id, timestamp, answers) ==
    LET hist == _fetch_quote(<<"historical", token_id>>, answers.historical[token_id], timestamp)
        latest == _fetch_quote(<<"latest", token_id>>, answers.latest[token_id], timestamp)
    IN  IF hist.raised \/ hist.price # {} THEN hist
        ELSE [raised |-> latest.raised, price |-> latest.price,
              asked |-> hist.asked \o latest.asked]

\* PriceService._fetch_eth_price, pricing.py 140-145
_fetch_eth_price_no_except(timestamp, answers) ==
    _fetch_price_for_id(ETH_CMC_ID, timestamp, answers)

_fetch_eth_price(timestamp, answers) ==
    LET r == _fetch_price_for_id(ETH_CMC_ID, timestamp, answers)
    IN  IF r.raised THEN [raised |-> FALSE, price |-> {}, asked |-> r.asked] ELSE r

\* PriceService._fetch_contract_price, pricing.py 128-138: [raised, price, ids, asked]
_fetch_contract_price(ids, contract, timestamp, answers) ==
    LET t == _get_contract_token_id(ids, contract, answers)
        r == _fetch_price_for_id(The(t.token_id), timestamp, answers)
    IN  IF t.token_id = {}
        THEN [raised |-> FALSE, price |-> {}, ids |-> t.ids, asked |-> t.asked]
        ELSE [raised |-> FALSE, price |-> IF r.raised THEN {} ELSE r.price,
              ids |-> t.ids, asked |-> t.asked \o r.asked]

\* if price: self._price_cache[cache_key] = price, pricing.py 91-92
StoreAlways(cache, cache_key, price) == Put(cache, cache_key, price)

Store(cache, cache_key, price) ==
    IF price # {} THEN Put(cache, cache_key, price) ELSE cache

\* PriceService.get_price, pricing.py 72-93: [raised, price, cache, ids, asked]
PriceService_get_price(cache, ids, contract, timestamp, answers) ==
    LET date_key == _date_key(timestamp)
        asset_id == IF Truthy(contract) THEN Lower(contract) ELSE "eth"
        cache_key == _cache_key(asset_id, date_key)
        token == _fetch_contract_price(ids, contract, timestamp, answers)
        eth == _fetch_eth_price(timestamp, answers)
        fetched ==
            IF Truthy(contract)
            THEN IF token.price # {}
                 THEN [raised |-> FALSE, price |-> token.price, ids |-> token.ids,
                       asked |-> token.asked]
                 ELSE [raised |-> eth.raised, price |-> eth.price, ids |-> token.ids,
                       asked |-> token.asked \o eth.asked]
            ELSE [raised |-> eth.raised, price |-> eth.price, ids |-> ids,
                  asked |-> eth.asked]
    IN  IF cache_key \in DOMAIN cache
        THEN [raised |-> FALSE, price |-> cache[cache_key], cache |-> cache,
              ids |-> ids, asked |-> <<>>]
        ELSE IF fetched.raised
        THEN [raised |-> TRUE, price |-> {}, cache |-> cache, ids |-> fetched.ids,
              asked |-> fetched.asked]
        ELSE [raised |-> FALSE, price |-> fetched.price,
              cache |-> Store(cache, cache_key, fetched.price),
              ids |-> fetched.ids, asked |-> fetched.asked]

\* amount * price.usd or None, features.py 258-260, then float(value or 0.0),
\* features.py 176
ValueAt(amount, price) ==
    FloatOrZero(IF price = {} THEN {} ELSE {amount * The(price).usd})

\* ---- the inputs of the model

\* The native asset, and one token contract in two spellings
PriceContracts == {"None", "0xTOKEN", "0xtoken"}

\* Two minutes of one UTC hour and the first minute of the next
PriceTimestamps == {0, 59, 60}

\* One endpoint after the other: both fail, or one of them has a quote
Routes ==
    {[historical |-> h, latest |-> l] :
        h \in {"raise", "empty", "quote"}, l \in {"raise", "empty", "quote"}}
    \ {[historical |-> "quote", latest |-> l] : l \in {"raise", "empty"}}

\* What the provider does with the requests of one get_price call
ProviderAnswers ==
    {[info |-> i,
      historical |-> [id \in {TokenId, ETH_CMC_ID} |->
                         IF id = TokenId THEN t.historical ELSE e.historical],
      latest |-> [id \in {TokenId, ETH_CMC_ID} |->
                     IF id = TokenId THEN t.latest ELSE e.latest]] :
        i \in {"raise", "empty", "id"}, t \in Routes, e \in Routes}

\* The provider with every request answered
ProviderHealthy ==
    [info |-> "id",
     historical |-> [id \in {TokenId, ETH_CMC_ID} |-> "quote"],
     latest |-> [id \in {TokenId, ETH_CMC_ID} |-> "quote"]]

\* The asset a query is about: the native asset, or a contract whatever the
\* letter case of its address
AssetOf(contract) ==
    IF contract = "None" THEN "native"
    ELSE IF contract \in {"0xTOKEN", "0xtoken"} THEN "token" ELSE contract

InitPrice ==
    /\ BatchIdle /\ ClassifyIdle /\ FeatureIdle /\ IntakeIdle
    /\ DecodeIdle /\ ParseIdle /\ RetryIdle
    /\ GateIdle /\ GatherIdle /\ NormalizeIdle /\ CombineIdle
    /\ \E k \in BOOLEAN, a \in ProviderAnswers :
          /\ api_key = k
          /\ pr_provider = a
          /\ ~k => a = ProviderHealthy
    /\ _price_cache = EmptyMap
    /\ _contract_id_cache = EmptyMap
    /\ pr_returned = {}
    /\ pr_call = <<>>

\* One get_price call of the calculator, for an event of 2 units
GetPrice ==
    /\ \E contract \in PriceContracts, timestamp \in PriceTimestamps :
          \E r \in {PriceService_get_price(_price_cache, _contract_id_cache,
                                           contract, timestamp, pr_provider)},
             asset \in {AssetOf(contract)}, hour \in {timestamp \div 60} :
              /\ _price_cache' = r.cache
              /\ _contract_id_cache' = r.ids
              /\ pr_call' = [contract |-> contract, timestamp |-> timestamp,
                             raised |-> r.raised, price |-> r.price,
                             asked |-> r.asked, answers |-> pr_provider,
                             known |-> \E e \in pr_returned :
                                          e.asset = asset /\ e.hour = hour,
                             usd |-> ValueAt(2, r.price)]
              /\ pr_returned' =
                    IF r.price = {} THEN pr_returned
                    ELSE pr_returned \cup
                         {[asset |-> asset, hour |-> hour, price |-> The(r.price)]}
    /\ UNCHANGED <<api_key, pr_provider>>
    /\ UNCHANGED <<intakeVars, batchVars, classifyVars, featureVars, decodeVars, parseVars,
                   retryVars, gateVars, gatherVars, normalizeVars, combineVars>>

\* The provider's outage ends
ProviderRecovers ==
    /\ pr_provider # ProviderHealthy
    /\ pr_provider' = ProviderHealthy
    /\ UNCHANGED <<api_key, _price_cache, _contract_id_cache, pr_returned, pr_call>>
    /\ UNCHANGED <<intakeVars, batchVars, classifyVars, featureVars, decodeVars, parseVars,
                   retryVars, gateVars, gatherVars, normalizeVars, combineVars>>

NextPrice == GetPrice \/ ProviderRecovers

SpecPrice == InitPrice /\ [][NextPrice]_vars

\* ---- C12

PriceCalled == pr_call # <<>>

TokenQuery == PriceCalled /\ pr_call.contract # "None"

\* A request that yields nothing: no API key, an error after the retries, a
\* timeout, or a payload without the entry
LookupFails == ~api_key \/ pr_call.answers.info # "id"

RequestFails(endpoint, id) == ~api_key \/ pr_call.answers[endpoint][id] # "quote"

EveryRequestFails(id) == RequestFails("historical", id) /\ RequestFails("latest", id)

\* The lookup of the asked asset fails
AssetFails ==
    IF TokenQuery THEN LookupFails \/ EveryRequestFails(TokenId)
    ELSE EveryRequestFails(ETH_CMC_ID)

\* The native asset's price requests yield a quote
NativeYields ==
    /\ api_key
    /\ \/ pr_call.answers.historical[ETH_CMC_ID] = "quote"
       \/ /\ pr_call.answers.historical[ETH_CMC_ID] = "empty"
          /\ pr_call.answers.latest[ETH_CMC_ID] = "quote"

NativeQuote ==
    IF pr_call.answers.historical[ETH_CMC_ID] = "quote"
    THEN QuoteUsd(<<"historical", ETH_CMC_ID>>, pr_call.timestamp)
    ELSE QuoteUsd(<<"latest", ETH_CMC_ID>>, pr_call.timestamp)

\* C12 as stated: get_price does not raise, and when the token-id lookup or
\* every price request for the asked asset fails it returns None and the
\* event is valued at 0.
C12_NoneOnAssetFailure ==
    PriceCalled =>
        /\ ~pr_call.raised
        /\ (~pr_call.known /\ AssetFails) => (pr_call.price = {} /\ pr_call.usd = 0)

\* C12: get_price does not raise. When the lookup of the asked asset fails
\* and every native-asset price request fails as well (always so for the
\* native asset itself), it returns None and the event is valued at 0; when
\* the lookup of a token fails and the native-asset request yields a quote,
\* it returns the native asset's price and the event is valued with it.
C12_NoneWhenNativeFailsToo ==
    PriceCalled =>
        /\ ~pr_call.raised
        /\ (~pr_call.known /\ AssetFails /\ EveryRequestFails(ETH_CMC_ID))
              => (pr_call.price = {} /\ pr_call.usd = 0)
        /\ (~pr_call.known /\ TokenQuery /\ AssetFails /\ NativeYields)
              => /\ pr_call.price = {TokenPrice(NativeQuote, pr_call.timestamp)}
                 /\ pr_call.usd = 2 * NativeQuote

\* The token-id lookup ends in an error and so do the native-asset requests
C12_Witness ==
    /\ TokenQuery /\ api_key
    /\ pr_call.answers.info = "raise"
    /\ pr_call.answers.historical[ETH_CMC_ID] = "raise"
    /\ Len(pr_call.asked) = 2
    /\ pr_call.price = {} /\ pr_call.usd = 0

\* ---- C13

\* C13: a price once returned for an asset and a UTC hour is what every later
\* call for that asset and hour returns, without a provider request; a call
\* answered without a request had an earlier return for its own asset and
\* hour; the price cache holds no None.
C13_PriceCache ==
    /\ \A a \in pr_returned : \A b \in pr_returned :
          (a.asset = b.asset /\ a.hour = b.hour) => a.price = b.price
    /\ PriceCalled =>
          /\ pr_call.known => (pr_call.asked = <<>> /\ pr_call.price # {})
          /\ (pr_call.asked = <<>> /\ pr_call.price # {}) => pr_call.known
    /\ \A k \in DOMAIN _price_cache : _price_cache[k] # {}

\* A token query answered with the price returned for another minute of the
\* hour, while an entry of the native asset and one of another hour exist
C13_Witness ==
    /\ TokenQuery /\ pr_call.known /\ pr_call.asked = <<>>
    /\ pr_call.price # {}
    /\ The(pr_call.price).timestamp # pr_call.timestamp
    /\ \E e \in pr_returned : e.asset = "native" /\ e.hour = pr_call.timestamp \div 60
    /\ \E e \in pr_returned : e.asset = "token" /\ e.hour # pr_call.timestamp \div 60

\* ---- C22

\* A call that the cache did not answer and that asked a provider
Served(call) == call # <<>> /\ call.asked # <<>>

\* The providers that served a call
ServedBy(call) == {call.asked[i].base : i \in 1..Len(call.asked)}

\* C22: successive uncached get_price calls alternate between the two price
\* providers: the call after one served by a provider is served by the other.
C22_AlternatesProviders ==
    [][(pr_provider' = pr_provider /\ Served(pr_call) /\ Served(pr_call'))
          => ServedBy(pr_call') # ServedBy(pr_call)]_vars

\* Every request of every call goes to the one provider
C22_OneProvider ==
    PriceCalled => ServedBy(pr_call) \subseteq {COINMARKETCAP_BASE}

\* ---- C27

\* A call that the price cache did not answer, with an API key configured
CacheMiss == PriceCalled /\ api_key /\ ~pr_call.known

\* The registry id the service holds for the call's contract after the call
ContractId ==
    IF TokenQuery /\ Lower(pr_call.contract) \in DOMAIN _contract_id_cache
    THEN _contract_id_cache[Lower(pr_call.contract)]
    ELSE {}

\* The strategies of the claim, in order
Strategies ==
    IF ContractId # {}
    THEN << <<"historical", The(ContractId)>>, <<"latest", The(ContractId)>>,
            <<"historical", ETH_CMC_ID>>, <<"latest", ETH_CMC_ID>> >>
    ELSE << <<"historical", ETH_CMC_ID>>, <<"latest", ETH_CMC_ID>> >>

\* A strategy succeeds when the provider has a quote for its request
Succeeds(strategy) == pr_call.answers[strategy[1]][strategy[2]] = "quote"

\* The strategy at which the claim's chain ends: the first that succeeds, or
\* the last one
LastTried ==
    IF \E i \in 1..Len(Strategies) : Succeeds(Strategies[i])
    THEN CHOOSE i \in 1..Len(Strategies) :
            Succeeds(Strategies[i]) /\ \A j \in 1..(i - 1) : ~Succeeds(Strategies[j])
    ELSE Len(Strategies)

\* The price requests of the call, in order (the id lookup aside)
RECURSIVE PriceRequests(_)
PriceRequests(asked) ==
    IF asked = <<>> THEN <<>>
    ELSE IF Head(asked).request[1] = "info" THEN PriceRequests(Tail(asked))
    ELSE <<Head(asked).request>> \o PriceRequests(Tail(asked))

\* No request of the call ended in an error
NoRequestRaised == \A i \in 1..Len(pr_call.asked) : pr_call.asked[i].answer # "raise"

ChainFollowed ==
    /\ PriceRequests(pr_call.asked) = SubSeq(Strategies, 1, LastTried)
    /\ pr_call.price =
          IF Succeeds(Strategies[LastTried])
          THEN {TokenPrice(QuoteUsd(Strategies[LastTried], pr_call.timestamp),
                           pr_call.timestamp)}
          ELSE {}
    /\ pr_call.price # {} =>
          LET cache_key == _cache_key(IF TokenQuery THEN Lower(pr_call.contract)
                                      ELSE "eth", _date_key(pr_call.timestamp))
          IN  /\ cache_key \in DOMAIN _price_cache
              /\ _price_cache[cache_key] = pr_call.price

\* C27: on a cache miss get_price tries, in order, the historical and the
\* latest price of the contract's registry id and then of the native asset
\* (for the native asset, or without a registry id, the two native ones);
\* it asks for no later strategy once one has succeeded, returns the first
\* result that is not None, and stores it under the asked asset's cache key.
C27_StrategyChain == CacheMiss => ChainFollowed

\* The same for calls none of whose requests ended in an error
C27_ChainWithoutErrors == (CacheMiss /\ NoRequestRaised) => ChainFollowed

\* The token has an id, its historical request has no entry and its latest
\* request a quote: two price requests, none to the native asset
C27_Reached ==
    /\ CacheMiss /\ TokenQuery /\ ContractId = {TokenId}
    /\ PriceRequests(pr_call.asked) = << <<"historical", TokenId>>, <<"latest", TokenId>> >>
    /\ pr_call.price # {}

\* ---- C30

\* The id cache holds None for the token contract
NegativeId ==
    /\ "0xtoken" \in DOMAIN _contract_id_cache
    /\ _contract_id_cache["0xtoken"] = {}

\* The id lookups a call issued
IdLookups(call) == {i \in 1..Len(call.asked) : call.asked[i].request[1] = "info"}

\* A call whose id lookup ended in an error or found no entry
LookupFailed(call) ==
    \E i \in IdLookups(call) : call.asked[i].answer # "id"

\* A price of the native asset
IsNativePrice(price) ==
    \E endpoint \in {"historical", "latest"}, t \in PriceTimestamps :
        price.usd = QuoteUsd(<<endpoint, ETH_CMC_ID>>, t)

\* C30: a token-id lookup that fails or finds no entry is cached as None;
\* from then on no call issues an id lookup for the contract, and every
\* price returned for it is a native-asset price, also after the provider
\* has recovered.
C30_NegativeIdCache ==
    [][/\ (pr_call' # pr_call /\ LookupFailed(pr_call')) => NegativeId'
       /\ NegativeId =>
             /\ NegativeId'
             /\ (pr_call' # pr_call) =>
                   /\ IdLookups(pr_call') = {}
                   /\ (pr_call'.contract # "None" /\ pr_call'.price # {})
                         => IsNativePrice(The(pr_call'.price))]_vars

\* After a failed lookup and the provider's recovery, a call for the token
\* asks for the native asset's price only and returns it
C30_Witness ==
    /\ NegativeId /\ api_key
    /\ TokenQuery /\ ~pr_call.known
    /\ pr_call.answers = ProviderHealthy
    /\ PriceRequests(pr_call.asked) = << <<"historical", ETH_CMC_ID>> >>
    /\ IdLookups(pr_call) = {}
    /\ pr_call.price = {TokenPrice(QuoteUsd(<<"historical", ETH_CMC_ID>>, pr_call.timestamp),
                                   pr_call.timestamp)}

----------------------------------------------------------------------------
(* PriceService._parse_historical_price, pricing.py 225-246 *)

MaxQuotes == 3

\* A quote entry of the response: its USD price (None when the entry has no
\* usable price) and its sample timestamp in minutes (None when it has none)
Quote(price, timestamp) == [price |-> price, timestamp |-> timestamp]

\* PriceService._extract_usd_price, pricing.py 306-332: None, or (ts, price)
_extract_usd_price(quote) ==
    IF quote.price = {} THEN {}
    ELSE {[ts |-> quote.timestamp, price |-> The(quote.price)]}

Abs(x) == IF x < 0 THEN -x ELSE x

\* diff < (best_diff or float("inf")), pricing.py 240: None and 0.0 are
\* both falsy
Closer(diff, best_diff) ==
    IF best_diff = {} \/ best_diff = {0} THEN TRUE ELSE diff < The(best_diff)

\* The loop of pricing.py 233-242 from quote i on
RECURSIVE ParseLoop(_, _, _, _, _)
ParseLoop(quotes, i, fallback_timestamp, best, best_diff) ==
    IF i > Len(quotes) THEN best
    ELSE LET parsed == _extract_usd_price(quotes[i])
             ts == IF The(parsed).ts # {} THEN The(The(parsed).ts) ELSE fallback_timestamp
             diff == Abs(ts - fallback_timestamp)
         IN  IF parsed = {}
             THEN ParseLoop(quotes, i + 1, fallback_timestamp, best, best_diff)
             ELSE IF best = {} \/ Closer(diff, best_diff)
             THEN ParseLoop(quotes, i + 1, fallback_timestamp,
                            {[ts |-> ts, price |-> The(parsed).price]}, {diff})
             ELSE ParseLoop(quotes, i + 1, fallback_timestamp, best, best_diff)

\* PriceService._parse_historical_price: None or a TokenPrice
_parse_historical_price(quotes, fallback_timestamp) ==
    LET best == ParseLoop(quotes, 1, fallback_timestamp, {}, {})
    IN  IF quotes = <<>> \/ best = {} THEN {}
        ELSE {TokenPrice(The(best).price, The(best).ts)}

\* ---- the inputs of the model

\* The requested minute, and samples an hour before, at, half an hour after
\* and an hour after it
RequestedMinute == 100

SampleMinutes == {{}, {RequestedMinute - 60}, {RequestedMinute}, {RequestedMinute + 30}, {RequestedMinute + 60}}

Quotes ==
    {Quote({p}, t) : p \in {1, 2}, t \in SampleMinutes} \cup {Quote({}, {RequestedMinute})}

InitParse ==
    /\ BatchIdle /\ ClassifyIdle /\ FeatureIdle /\ IntakeIdle
    /\ DecodeIdle /\ PriceIdle /\ RetryIdle
    /\ GateIdle /\ GatherIdle /\ NormalizeIdle /\ CombineIdle
    /\ ps_quotes \in SeqsUpTo(Quotes, MaxQuotes)
    /\ ps_requested = RequestedMinute
    /\ ps_result = <<>>

ParseHistoricalPrice ==
    /\ ps_result = <<>>
    /\ ps_result' = [price |-> _parse_historical_price(ps_quotes, ps_requested)]
    /\ UNCHANGED <<ps_quotes, ps_requested>>
    /\ UNCHANGED <<intakeVars, batchVars, classifyVars, featureVars, decodeVars, priceVars,
                   retryVars, gateVars, gatherVars, normalizeVars, combineVars>>

NextParse == ParseHistoricalPrice

SpecParse == InitParse /\ [][NextParse]_vars

\* ---- C14

Parsed == ps_result # <<>>

\* The valid USD quotes of the response, each with a sample timestamp
ValidQuotes == {i \in 1..Len(ps_quotes) : ps_quotes[i].price # {}}

AllSampled == \A i \in ValidQuotes : ps_quotes[i].timestamp # {}

Distance(i) == Abs(The(ps_quotes[i].timestamp) - ps_requested)

\* C14: with several valid USD quotes in the response, the returned quote is
\* one whose sample timestamp has the minimum absolute difference from the
\* requested timestamp.
C14_ClosestQuote ==
    (Parsed /\ Cardinality(ValidQuotes) >= 2 /\ AllSampled) =>
        \E i \in ValidQuotes :
            /\ ps_result.price =
                  {TokenPrice(The(ps_quotes[i].price), The(ps_quotes[i].timestamp))}
            /\ \A j \in ValidQuotes : Distance(i) <= Distance(j)

\* The same without a quote sampled at the requested timestamp itself
C14_ClosestQuoteUnlessExact ==
    (Parsed /\ Cardinality(ValidQuotes) >= 2 /\ AllSampled
        /\ \A j \in ValidQuotes : Distance(j) # 0) =>
        \E i \in ValidQuotes :
            /\ ps_result.price =
                  {TokenPrice(The(ps_quotes[i].price), The(ps_quotes[i].timestamp))}
            /\ \A j \in ValidQuotes : Distance(i) <= Distance(j)

----------------------------------------------------------------------------
(* async_retry around AlchemyClient._post and PriceService._request,
   utils.py 176-208, alchemy.py 61-76, pricing.py 95-126 *)

\* The decorator's defaults; delays are in milliseconds
retries == 5

base_delay == 500

jitter == 200

\* One upstream response: "ok" (200 with the expected JSON), "rpc_error"
\* (200 with a JSON-RPC error body), "malformed" (200 with a body that is no
\* JSON), an HTTP error status, or "timeout" (no response in time)
Responses == {"ok", "rpc_error", "malformed", "400", "404", "429", "500", "timeout"}

\* AlchemyClient._post, alchemy.py 61-76: TRUE when the call raises
_post_raises(response) == response # "ok"

\* PriceService._request, pricing.py 95-126: a 404 returns {}, any other
\* JSON body is returned as it is
_request_raises(response) == response \notin {"ok", "rpc_error", "404"}

\* await func(*args, **kwargs) raising an exception of the exceptions
\* argument; every exception of the two functions is an Exception
Raises(func, response) ==
    IF func = "_post" THEN _post_raises(response) ELSE _request_raises(response)

RECURSIVE Pow2(_)
Pow2(n) == IF n = 0 THEN 1 ELSE 2 * Pow2(n - 1)

\* random.random() * jitter, utils.py 195: a value in [0, jitter)
JitterSamples == {0, jitter \div 2, jitter - 1}

\* if attempt > retries: raise, utils.py 192-193
ExhaustedOneEarly(n) == n >= retries

Exhausted(n) == n > retries

\* delay = base_delay * (2 ** (attempt - 1)), utils.py 194
Backoff(n) == base_delay * Pow2(n - 1)

InitRetry ==
    /\ BatchIdle /\ ClassifyIdle /\ FeatureIdle /\ IntakeIdle
    /\ DecodeIdle /\ PriceIdle /\ ParseIdle
    /\ GateIdle /\ GatherIdle /\ NormalizeIdle /\ CombineIdle
    /\ rt_func \in {"_post", "_request"}
    /\ rt_upstream \in Responses
    /\ rt_pc = "call"
    /\ attempt = 0
    /\ rt_responses = <<>>
    /\ rt_delays = <<>>

RetryFrame ==
    /\ UNCHANGED <<rt_func, rt_upstream>>
    /\ UNCHANGED <<intakeVars, batchVars, classifyVars, featureVars, decodeVars, priceVars,
                   parseVars, gateVars, gatherVars, normalizeVars, combineVars>>

\* utils.py 189: func returns
CallReturns ==
    /\ rt_pc = "call"
    /\ \E response \in {rt_upstream, "ok"} :
          /\ ~Raises(rt_func, response)
          /\ rt_responses' = Append(rt_responses, response)
    /\ rt_pc' = "returned"
    /\ UNCHANGED <<attempt, rt_delays>>
    /\ RetryFrame

\* utils.py 190-204: func raises and the wrapper goes to sleep
CallFailsAndSleeps ==
    /\ rt_pc = "call"
    /\ Raises(rt_func, rt_upstream)
    /\ ~Exhausted(attempt + 1)
    /\ rt_responses' = Append(rt_responses, rt_upstream)
    /\ attempt' = attempt + 1
    /\ \E j \in JitterSamples : rt_delays' = Append(rt_delays, Backoff(attempt + 1) + j)
    /\ rt_pc' = "sleeping"
    /\ RetryFrame

\* utils.py 190-193: func raises and the wrapper re-raises
CallFailsAndRaises ==
    /\ rt_pc = "call"
    /\ Raises(rt_func, rt_upstream)
    /\ Exhausted(attempt + 1)
    /\ rt_responses' = Append(rt_responses, rt_upstream)
    /\ attempt' = attempt + 1
    /\ rt_pc' = "raised"
    /\ UNCHANGED rt_delays
    /\ RetryFrame

\* utils.py 204: asyncio.sleep(delay) is over
WakeUp ==
    /\ rt_pc = "sleeping"
    /\ rt_pc' = "call"
    /\ UNCHANGED <<attempt, rt_responses, rt_delays>>
    /\ RetryFrame

NextRetry == CallReturns \/ CallFailsAndSleeps \/ CallFailsAndRaises \/ WakeUp

SpecRetry == InitRetry /\ [][NextRetry]_vars

\* ---- C15

Attempts == Len(rt_responses)

Failed(i) == Raises(rt_func, rt_responses[i])

\* C15: with the defaults the call is attempted at most 6 times; the first
\* success is returned and ends the attempts; the sleep before retry k is at
\* least 0.5 x 2^(k-1) s and less than that plus 0.2 s; a 6th failure is
\* raised to the caller.
C15_RetryBudget ==
    /\ Attempts <= 6
    /\ \A i \in 1..(Attempts - 1) : Failed(i)
    /\ rt_pc = "returned" <=> (Attempts >= 1 /\ ~Failed(Attempts))
    /\ rt_pc = "raised" <=> (Attempts = 6 /\ Failed(6))
    /\ Len(rt_delays) = IF rt_pc \in {"sleeping", "call"} THEN Attempts
                        ELSE Attempts - 1
    /\ \A k \in 1..Len(rt_delays) :
          /\ rt_delays[k] >= 500 * Pow2(k - 1)
          /\ rt_delays[k] < 500 * Pow2(k - 1) + 200

\* Six failures, five sleeps, the last of them at least 8 s
C15_Witness ==
    /\ rt_pc = "raised"
    /\ Attempts = 6
    /\ Len(rt_delays) = 5
    /\ rt_delays[5] >= 8000

\* ---- C16

\* A permanent upstream failure: a 4xx status other than 429, a JSON-RPC
\* error body, a malformed response
Permanent(response) == response \in {"400", "404", "rpc_error", "malformed"}

\* C16: a call that fails with a permanent upstream failure is raised to the
\* caller after exactly one attempt, with no retry and no backoff sleep.
C16_PermanentNotRetried ==
    (Attempts >= 1 /\ Failed(1) /\ Permanent(rt_responses[1])) =>
        /\ rt_pc = "raised"
        /\ Attempts = 1
        /\ rt_delays = <<>>

\* Only failures are retried, and every failure is: transient or permanent
C16_EveryFailureRetried ==
    \A i \in 1..Attempts :
        (Failed(i) /\ i <= 5) => Len(rt_delays) >= i

----------------------------------------------------------------------------
(* Concurrent rpc calls of one AlchemyClient, alchemy.py 37 and 61-76 *)

\* asyncio.Semaphore(10), alchemy.py 37
SemaphorePermits == 10

\* Calls of _post the calculators' tasks have under way at the same time
MaxRpcCalls == 11

\* Where a call of the wrapped _post is: "ready" (about to enter async with
\* self._semaphore, for the first time or after a backoff sleep), "inflight"
\* (inside it, from session.post to the read of the body), "sleeping" (in the
\* wrapper's asyncio.sleep), "returned" or "raised" (back at the caller)
Positions == {"ready", "inflight", "sleeping", "returned", "raised"}

\* asyncio.Semaphore.acquire goes on when a permit is free
CanAcquireAlways(permits) == TRUE

CanAcquire(permits) == permits > 0

\* One call moves from position a to position b
Move(a, b) ==
    /\ gt_calls[a] > 0
    /\ gt_calls' = [gt_calls EXCEPT ![a] = @ - 1, ![b] = @ + 1]

GateFrame ==
    UNCHANGED <<intakeVars, batchVars, classifyVars, featureVars, decodeVars, priceVars,
                parseVars, retryVars, gatherVars, normalizeVars, combineVars>>

InitGate ==
    /\ BatchIdle /\ ClassifyIdle /\ FeatureIdle /\ IntakeIdle
    /\ DecodeIdle /\ PriceIdle /\ ParseIdle
    /\ RetryIdle /\ GatherIdle /\ NormalizeIdle /\ CombineIdle
    /\ _semaphore = SemaphorePermits
    /\ \E n \in 1..MaxRpcCalls :
          gt_calls = [p \in Positions |-> IF p = "ready" THEN n ELSE 0]

\* alchemy.py 64: async with self._semaphore, entered
PostAcquires ==
    /\ CanAcquire(_semaphore)
    /\ Move("ready", "inflight")
    /\ _semaphore' = _semaphore - 1
    /\ GateFrame

\* alchemy.py 65-76: the response is read, the semaphore left, data returned
PostReturns ==
    /\ Move("inflight", "returned")
    /\ _semaphore' = _semaphore + 1
    /\ GateFrame

\* alchemy.py 65-75 and utils.py 190-204: the request fails, the exception
\* leaves the async with block, and the wrapper sleeps before the retry
PostFailsAndSleeps ==
    /\ Move("inflight", "sleeping")
    /\ _semaphore' = _semaphore + 1
    /\ GateFrame

\* alchemy.py 65-75 and utils.py 190-193: the request fails for the last time
PostFailsAndRaises ==
    /\ Move("inflight", "raised")
    /\ _semaphore' = _semaphore + 1
    /\ GateFrame

\* utils.py 204 and 187-189: the sleep is over, _post is called again
PostRetries ==
    /\ Move("sleeping", "ready")
    /\ UNCHANGED _semaphore
    /\ GateFrame

NextGate ==
    PostAcquires \/ PostReturns \/ PostFailsAndSleeps \/ PostFailsAndRaises \/ PostRetries

SpecGate == InitGate /\ [][NextGate]_vars

\* ---- C17

GateRunning == gt_calls # EmptyMap

\* C17: at most 10 requests of the client are in flight at any moment, and
\* the slots taken are exactly those of the requests in flight: a call that
\* sleeps in backoff holds none.
C17_TransportGate ==
    GateRunning =>
        /\ gt_calls["inflight"] <= 10
        /\ 10 - _semaphore = gt_calls["inflight"]

\* Ten requests in flight while another call waits for a slot
C17_Witness ==
    /\ GateRunning
    /\ gt_calls["inflight"] = 10
    /\ gt_calls["ready"] >= 1

----------------------------------------------------------------------------
(* gather_wallet_transfers, alchemy.py 214-261, and its two pagination loops,
   AlchemyClient.get_asset_transfers_paginated, alchemy.py 141-180 *)

\* Transfers the provider returns per page (maxCount), the largest limit
\* asked for, and the longest history of one direction
PageSize == 2

MaxLimit == 3

MaxTransfers == 3

\* A raw transfer with its _parsed_timestamp, alchemy.py 162-168
Transfer(hash, uniqueId, timestamp) ==
    [hash |-> hash, uniqueId |-> uniqueId, timestamp |-> timestamp, dated |-> TRUE]

\* A raw transfer without metadata.blockTimestamp: _parsed_timestamp is None
\* and the sort key of alchemy.py 239 and 253 is the epoch
Undated(hash, uniqueId) ==
    [hash |-> hash, uniqueId |-> uniqueId, timestamp |-> 0, dated |-> FALSE]

\* f"{transfer.get('hash')}::{unique_id}", alchemy.py 245-246
TransferKey(t) == t.hash \o "::" \o t.uniqueId

\* One page of alchemy_getAssetTransfers, alchemy.py 105-139: the provider's
\* page key is the number of transfers of the direction already handed out
\* ({} for None); it returns the next PageSize transfers and, when more are
\* left, the next page key
Page(history, page_key) ==
    LET n == IF page_key = {} THEN 0 ELSE The(page_key)
        more == n + PageSize < Len(history)
    IN  [transfers |-> SubSeq(history, n + 1, IF more THEN n + PageSize ELSE Len(history)),
         pageKey |-> IF more THEN {n + PageSize} ELSE {}]

\* One turn of the loop of alchemy.py 153-179: all_transfers and page_key
\* after it, whether the loop breaks, and the page it received
PaginationStepNoCutoff(history, all_transfers, page_key, limit, stop_timestamp) ==
    LET result == Page(history, page_key)
        transfers == result.transfers
        extended == all_transfers \o transfers
    IN  IF limit # {} /\ The(limit) # 0 /\ Len(extended) >= The(limit)
        THEN [all_transfers |-> SubSeq(extended, 1, The(limit)), page_key |-> page_key,
              break |-> TRUE, page |-> result]
        ELSE [all_transfers |-> extended, page_key |-> result.pageKey,
              break |-> result.pageKey = {}, page |-> result]

PaginationStep(history, all_transfers, page_key, limit, stop_timestamp) ==
    LET result == Page(history, page_key)
        transfers == result.transfers
        extended == all_transfers \o transfers
        oldest == transfers[Len(transfers)]
    IN  IF limit # {} /\ The(limit) # 0 /\ Len(extended) >= The(limit)
        THEN [all_transfers |-> SubSeq(extended, 1, The(limit)), page_key |-> page_key,
              break |-> TRUE, page |-> result]
        ELSE IF /\ stop_timestamp # {} /\ transfers # <<>>
                /\ oldest.dated /\ oldest.timestamp < The(stop_timestamp)
        THEN [all_transfers |-> extended, page_key |-> page_key, break |-> TRUE,
              page |-> result]
        ELSE [all_transfers |-> extended, page_key |-> result.pageKey,
              break |-> result.pageKey = {}, page |-> result]

\* The loop of alchemy.py 243-250: the first transfer of every key, in order
KeepAll(s) == s

Dedupe(s) ==
    LET first == {i \in 1..Len(s) : \A j \in 1..(i - 1) : TransferKey(s[j]) # TransferKey(s[i])}
        nth(k) == CHOOSE i \in first : Cardinality({j \in first : j < i}) = k - 1
    IN  [k \in 1..Cardinality(first) |-> s[nth(k)]]

\* s[:n]
Take(s, n) == SubSeq(s, 1, IF n < Len(s) THEN n ELSE Len(s))

\* [tx for tx in s if tx.get("_parsed_timestamp") and
\*  tx["_parsed_timestamp"] >= stop_timestamp], alchemy.py 257-260
NotBeforeNoFilter(s, stop_timestamp) == s

RECURSIVE NotBefore(_, _)
NotBefore(s, stop_timestamp) ==
    IF s = <<>> THEN <<>>
    ELSE IF Head(s).dated /\ Head(s).timestamp >= stop_timestamp
    THEN <<Head(s)>> \o NotBefore(Tail(s), stop_timestamp)
    ELSE NotBefore(Tail(s), stop_timestamp)

\* outgoing, incoming = await asyncio.gather(...), alchemy.py 223-236: the
\* lists in the order of the arguments, whichever loop finished first
AwaitedListsAsCompleted(fetched, finished) ==
    <<fetched[finished[1]], fetched[finished[2]]>>

AwaitedLists(fetched, finished) == <<fetched.outgoing, fetched.incoming>>

\* alchemy.py 237-261
MergeTransfers(outgoing, incoming, limit, stop_timestamp) ==
    LET all_transfers == SortDesc(outgoing \o incoming)
        sorted_transfers == SortDesc(Dedupe(all_transfers))
        limited == IF limit # {} /\ The(limit) # 0 THEN Take(sorted_transfers, The(limit))
                   ELSE sorted_transfers
    IN  IF stop_timestamp # {} THEN NotBefore(limited, The(stop_timestamp)) ELSE limited

\* ---- the inputs of the model

\* Four transfers of three transactions, two of them in the same block, and
\* one without a block timestamp
TransferUniverse ==
    {Transfer("0xh1", "u1", 40), Transfer("0xh2", "u2", 30), Transfer("0xh2", "u5", 30),
     Transfer("0xh4", "u4", 10), Undated("0xh5", "u6")}

\* A direction's history as the provider pages it: newest first, no transfer
\* twice
Histories ==
    {s \in SeqsUpTo(TransferUniverse, MaxTransfers) :
        /\ \A i \in 1..Len(s) : \A j \in 1..Len(s) : i # j => s[i] # s[j]
        /\ \A i \in 1..Len(s) : \A j \in 1..Len(s) :
              (i < j /\ s[i].dated /\ s[j].dated) => s[i].timestamp >= s[j].timestamp}

\* limit and stop_timestamp as fetch_wallet_data passes them, features.py
\* 98-107, neither, and both
GatherArgs ==
    {[limit |-> {l}, stop |-> {}] : l \in 1..MaxLimit}
    \cup {[limit |-> {}, stop |-> {20}], [limit |-> {}, stop |-> {}]}
    \cup {[limit |-> {l}, stop |-> {20}] : l \in 1..MaxLimit}

Directions == {"outgoing", "incoming"}

GatherFrame ==
    /\ UNCHANGED <<gw_provider, gw_limit, gw_stop>>
    /\ UNCHANGED <<intakeVars, batchVars, classifyVars, featureVars, decodeVars, priceVars,
                   parseVars, retryVars, gateVars, normalizeVars, combineVars>>

InitGather ==
    /\ BatchIdle /\ ClassifyIdle /\ FeatureIdle /\ IntakeIdle
    /\ DecodeIdle /\ PriceIdle /\ ParseIdle
    /\ RetryIdle /\ GateIdle /\ NormalizeIdle /\ CombineIdle
    /\ gw_provider \in [Directions -> Histories]
    /\ \E a \in GatherArgs : gw_limit = a.limit /\ gw_stop = a.stop
    /\ gw_fetched = [d \in Directions |-> <<>>]
    /\ gw_page_key = [d \in Directions |-> {}]
    /\ gw_pages = [d \in Directions |-> <<>>]
    /\ gw_finished = <<>>
    /\ gw_pc = [outgoing |-> "paging", incoming |-> "paging", gather |-> "waiting"]
    /\ gw_result = <<>>

\* One page of one of the two loops that asyncio.gather runs together
FetchPage ==
    /\ \E d \in Directions :
          /\ gw_pc[d] = "paging"
          /\ \E r \in {PaginationStep(gw_provider[d], gw_fetched[d], gw_page_key[d],
                                      gw_limit, gw_stop)} :
                /\ gw_fetched' = [gw_fetched EXCEPT ![d] = r.all_transfers]
                /\ gw_page_key' = [gw_page_key EXCEPT ![d] = r.page_key]
                /\ gw_pages' = [gw_pages EXCEPT ![d] =
                                   Append(@, [page_key |-> gw_page_key[d],
                                              transfers |-> r.page.transfers,
                                              pageKey |-> r.page.pageKey])]
                /\ gw_pc' = [gw_pc EXCEPT ![d] = IF r.break THEN "done" ELSE "paging"]
                /\ gw_finished' = IF r.break THEN Append(gw_finished, d) ELSE gw_finished
    /\ UNCHANGED gw_result
    /\ GatherFrame

\* alchemy.py 237-261 once both loops have returned
GatherTransfersReturns ==
    /\ gw_pc.gather = "waiting"
    /\ gw_pc.outgoing = "done" /\ gw_pc.incoming = "done"
    /\ \E lists \in {AwaitedLists(gw_fetched, gw_finished)} :
          gw_result' = MergeTransfers(lists[1], lists[2], gw_limit, gw_stop)
    /\ gw_pc' = [gw_pc EXCEPT !.gather = "returned"]
    /\ UNCHANGED <<gw_fetched, gw_page_key, gw_pages, gw_finished>>
    /\ GatherFrame

NextGather == FetchPage \/ GatherTransfersReturns

SpecGather == InitGather /\ [][NextGather]_vars

\* ---- C18

Gathered == gw_pc # <<>> /\ gw_pc.gather = "returned"

\* The distinct transfers of the wallet over both directions
DistinctTransfers == Range(gw_provider.outgoing) \cup Range(gw_provider.incoming)

Min(a, b) == IF a <= b THEN a ELSE b

\* Every transfer of the wallet carries a block timestamp
AllDated == \A t \in DistinctTransfers : t.dated

\* C18: with limit L the result holds min(L, number of distinct transfers)
\* distinct transfers of the wallet, and no transfer left out is strictly
\* newer than one in it (for transfers that carry a block timestamp).
C18_MostRecent ==
    (Gathered /\ gw_limit # {} /\ gw_stop = {} /\ AllDated) =>
        /\ Len(gw_result) = Min(The(gw_limit), Cardinality(DistinctTransfers))
        /\ Cardinality(Range(gw_result)) = Len(gw_result)
        /\ Range(gw_result) \subseteq DistinctTransfers
        /\ \A t \in DistinctTransfers \ Range(gw_result) :
              \A r \in Range(gw_result) : ~(t.timestamp > r.timestamp)

\* A self-transfer is in both directions and in the result, and the limit
\* leaves an older transfer out
C18_Witness ==
    /\ Gathered /\ gw_limit # {} /\ gw_stop = {} /\ AllDated
    /\ Len(gw_result) < Cardinality(DistinctTransfers)
    /\ \E t \in Range(gw_provider.outgoing) \cap Range(gw_provider.incoming) :
          t \in Range(gw_result)
    /\ Len(gw_provider.outgoing) > PageSize

\* ---- C24

\* C24: the returned list never holds two records with the same hash and
\* uniqueId; it is ordered by non-increasing timestamp, the records without
\* one last; with a cutoff it holds only records with a known timestamp not
\* before the cutoff; with a limit it holds at most limit records.
C24_ResultShape ==
    Gathered =>
        /\ \A i \in 1..Len(gw_result) : \A j \in 1..Len(gw_result) :
              (i # j) => ~(/\ gw_result[i].hash = gw_result[j].hash
                           /\ gw_result[i].uniqueId = gw_result[j].uniqueId)
        /\ \A i \in 1..Len(gw_result) : \A j \in 1..Len(gw_result) :
              (i < j) =>
                  /\ (gw_result[i].dated /\ gw_result[j].dated)
                        => gw_result[i].timestamp >= gw_result[j].timestamp
                  /\ gw_result[j].dated => gw_result[i].dated
        /\ gw_stop # {} =>
              \A i \in 1..Len(gw_result) :
                  gw_result[i].dated /\ gw_result[i].timestamp >= The(gw_stop)
        /\ gw_limit # {} => Len(gw_result) <= The(gw_limit)

\* With a cutoff, a transfer of both directions is returned once, and an
\* older transfer and one without a timestamp that were fetched are left out
C24_Witness ==
    /\ Gathered /\ gw_stop # {}
    /\ \E t \in Range(gw_fetched.outgoing) \cap Range(gw_fetched.incoming) :
          t \in Range(gw_result)
    /\ \E t \in Range(gw_fetched.outgoing) : t.dated /\ t.timestamp < The(gw_stop)
    /\ \E t \in Range(gw_fetched.incoming) : ~t.dated
    /\ Len(gw_result) >= 2

\* ---- C25

\* The transfers of the first i pages a loop received
RECURSIVE Collected(_, _)
Collected(pages, i) ==
    IF i = 0 THEN <<>> ELSE Collected(pages, i - 1) \o pages[i].transfers

\* The i-th page a loop received is one after which the claim allows no
\* further request
LastPage(pages, i) ==
    \/ pages[i].pageKey = {}
    \/ /\ gw_stop # {} /\ pages[i].transfers # <<>>
       /\ pages[i].transfers[Len(pages[i].transfers)].dated
       /\ pages[i].transfers[Len(pages[i].transfers)].timestamp < The(gw_stop)
    \/ gw_limit # {} /\ Len(Collected(pages, i)) >= The(gw_limit)

\* C25: a pagination loop asks for its first page without a page key and for
\* every further page with the key the page before returned; it asks for no
\* page after one without a key, one whose last record precedes the cutoff,
\* or one that brings the collected records to the limit; it returns the
\* records of all pages received, cut to the limit when the limit is reached.
C25_Pagination ==
    \A d \in Directions :
        /\ \A i \in 1..Len(gw_pages[d]) :
              gw_pages[d][i].page_key =
                 IF i = 1 THEN {} ELSE gw_pages[d][i - 1].pageKey
        /\ \A i \in 1..(Len(gw_pages[d]) - 1) : ~LastPage(gw_pages[d], i)
        /\ gw_pc[d] = "done" =>
              gw_fetched[d] =
                 IF /\ gw_limit # {}
                    /\ Len(Collected(gw_pages[d], Len(gw_pages[d]))) >= The(gw_limit)
                 THEN Take(Collected(gw_pages[d], Len(gw_pages[d])), The(gw_limit))
                 ELSE Collected(gw_pages[d], Len(gw_pages[d]))

\* With a cutoff, a loop asked for a second page with the key of the first,
\* whose last record is not before the cutoff, and stopped at the second
C25_Witness ==
    /\ gw_pc # <<>> /\ gw_pc.outgoing = "done" /\ gw_stop # {}
    /\ Len(gw_pages.outgoing) = 2
    /\ gw_pages.outgoing[2].page_key = {PageSize}
    /\ Len(gw_fetched.outgoing) = PageSize + 1
    /\ gw_fetched.outgoing[PageSize + 1].timestamp < The(gw_stop)

\* ---- C26

\* get_asset_transfers_paginated run on its own, alchemy.py 141-180
RECURSIVE Paginate(_, _, _, _, _)
Paginate(history, all_transfers, page_key, limit, stop_timestamp) ==
    LET r == PaginationStep(history, all_transfers, page_key, limit, stop_timestamp)
    IN  IF r.break THEN r.all_transfers
        ELSE Paginate(history, r.all_transfers, r.page_key, limit, stop_timestamp)

\* Where the provider lists a transfer: the outgoing ones first, each
\* direction in the provider's order
ProviderPosition(t) ==
    LET listed == gw_provider.outgoing \o gw_provider.incoming
    IN  CHOOSE i \in 1..Len(listed) :
            listed[i] = t /\ \A j \in 1..(i - 1) : listed[j] # t

\* C26: the returned list is the one the provider's pages determine, however
\* the page requests of the two loops interleave and whichever loop returns
\* first; records with equal timestamps keep outgoing-before-incoming order
\* and the provider's order within a direction.
C26_Deterministic ==
    Gathered =>
        /\ gw_result =
              MergeTransfers(Paginate(gw_provider.outgoing, <<>>, {}, gw_limit, gw_stop),
                             Paginate(gw_provider.incoming, <<>>, {}, gw_limit, gw_stop),
                             gw_limit, gw_stop)
        /\ \A i \in 1..Len(gw_result) : \A j \in 1..Len(gw_result) :
              (i < j /\ gw_result[i].timestamp = gw_result[j].timestamp) =>
                  ProviderPosition(gw_result[i]) < ProviderPosition(gw_result[j])

\* The incoming loop returned first, and of two transfers of one block the
\* outgoing one is listed before the incoming one
C26_Witness ==
    /\ Gathered
    /\ gw_finished = <<"incoming", "outgoing">>
    /\ Len(gw_pages.outgoing) = 2
    /\ \E i \in 1..Len(gw_result) : \E j \in 1..Len(gw_result) :
          /\ i < j /\ gw_result[i].timestamp = gw_result[j].timestamp
          /\ gw_result[i] \in Range(gw_provider.outgoing) \ Range(gw_provider.incoming)
          /\ gw_result[j] \in Range(gw_provider.incoming) \ Range(gw_provider.outgoing)

----------------------------------------------------------------------------
(* FeatureCalculator._normalize_transfer, features.py 112-151 *)

\* A raw transfer of the provider. A string field that the record lacks or
\* holds as null is "None" (hash: ""), the parsed timestamp is {} when the
\* record has none.
RawTransfer(hash, uniqueId, timestamp, category, from, to) ==
    [hash |-> hash, uniqueId |-> uniqueId, timestamp |-> timestamp,
     category |-> category, from |-> from, to |-> to]

\* if from_address and from_address.lower() == wallet ... elif to_address and
\* to_address.lower() == wallet, features.py 133-137
Direction(wallet, from, to) ==
    IF Truthy(from) /\ Lower(from) = wallet THEN "out"
    ELSE IF Truthy(to) /\ Lower(to) = wallet THEN "in"
    ELSE "unknown"

\* FeatureCalculator._normalize_transfer: the fields of the TransferEvent
\* that come from the record's hash, id, time, category and addresses
_normalize_transfer(wallet, transfer) ==
    LET tx_hash == Lower(transfer.hash)
    IN  [tx_hash |-> tx_hash,
         unique_id |-> IF Truthy(transfer.uniqueId) THEN transfer.uniqueId ELSE tx_hash,
         timestamp |-> IF transfer.timestamp # {} THEN The(transfer.timestamp) ELSE 0,
         category |-> IF Truthy(transfer.category) THEN Lower(transfer.category)
                      ELSE "unknown",
         from_address |-> IF transfer.from # "None" THEN Lower(transfer.from) ELSE "None",
         to_address |-> IF transfer.to # "None" THEN Lower(transfer.to) ELSE "None",
         direction |-> Direction(wallet, transfer.from, transfer.to)]

\* ---- the inputs of the model

RawAddresses == {"None", "", "0xwallet", "0xWALLET", "0xother", "0xOTHER"}

RawTransfers ==
    {RawTransfer(h, u, t, c, from, to) :
        h \in {"0xH1", ""}, u \in {"u1", "None"}, t \in {{}, {5}},
        c \in {"ERC20", "None"}, from \in RawAddresses, to \in RawAddresses}

InitNormalize ==
    /\ BatchIdle /\ ClassifyIdle /\ FeatureIdle /\ IntakeIdle
    /\ DecodeIdle /\ PriceIdle /\ ParseIdle
    /\ RetryIdle /\ GateIdle /\ GatherIdle /\ CombineIdle
    /\ nz_wallet \in WalletArgs
    /\ nz_transfer \in RawTransfers
    /\ nz_event = <<>>

NormalizeTransfer ==
    /\ nz_event = <<>>
    /\ nz_event' = _normalize_transfer(nz_wallet, nz_transfer)
    /\ UNCHANGED <<nz_wallet, nz_transfer>>
    /\ UNCHANGED <<intakeVars, batchVars, classifyVars, featureVars, decodeVars, priceVars,
                   parseVars, retryVars, gateVars, gatherVars, combineVars>>

NextNormalize == NormalizeTransfer

SpecNormalize == InitNormalize /\ [][NextNormalize]_vars

\* ---- C19

Normalized == nz_event # <<>>

\* Two addresses that differ at most in letter case
SameAddress(a, b) ==
    \E w \in {{"0xwallet", "0xWALLET"}, {"0xother", "0xOTHER"}} : a \in w /\ b \in w

ClaimedDirection ==
    IF SameAddress(nz_transfer.from, nz_wallet) THEN "out"
    ELSE IF SameAddress(nz_transfer.to, nz_wallet) THEN "in"
    ELSE "unknown"

\* C19: direction is out when the record's sender equals the queried wallet
\* case-insensitively, whatever the letter case of either, otherwise in when
\* the receiver does, otherwise unknown.
C19_Direction == Normalized => nz_event.direction = ClaimedDirection

\* The same for a wallet argument in lower case
C19_DirectionOfLowerCaseWallet ==
    (Normalized /\ nz_wallet = "0xwallet") => nz_event.direction = ClaimedDirection

\* A wallet argument with upper-case letters never gets a direction
C19_UpperCaseWalletUnknown ==
    (Normalized /\ nz_wallet = "0xWALLET") => nz_event.direction = "unknown"

----------------------------------------------------------------------------
(* FeatureCalculator._combine_events over two event lists, features.py 231-244 *)

\* Events with two ids at two times, and events without a unique_id
CombineShapes ==
    {Event("0xh1", u, t, "external", {1}, "0xwallet", "0xother", "None", "None") :
        u \in {"u1", "u2", ""}, t \in {1, 2}}
    \cup {Event("0xh2", "", 1, "external", {1}, "0xwallet", "0xother", "None", "None")}

InitCombine ==
    /\ BatchIdle /\ ClassifyIdle /\ FeatureIdle /\ IntakeIdle
    /\ DecodeIdle /\ PriceIdle /\ ParseIdle
    /\ RetryIdle /\ GateIdle /\ GatherIdle /\ NormalizeIdle
    /\ cb_year \in SeqsUpTo(CombineShapes, MaxEvents)
    /\ cb_recent \in SeqsUpTo(CombineShapes, MaxEvents)
    /\ cb_result = <<>>

\* The two lists combined, the first list combined with itself, and the
\* first list processed once
CombineEvents ==
    /\ cb_result = <<>>
    /\ cb_result' = [merged |-> _combine_events(cb_year, cb_recent),
                     again |-> _combine_events(cb_year, cb_year),
                     once |-> _combine_events(cb_year, <<>>)]
    /\ UNCHANGED <<cb_year, cb_recent>>
    /\ UNCHANGED <<intakeVars, batchVars, classifyVars, featureVars, decodeVars, priceVars,
                   parseVars, retryVars, gateVars, gatherVars, normalizeVars>>

NextCombine == CombineEvents

SpecCombine == InitCombine /\ [][NextCombine]_vars

\* ---- C20

Combined == cb_result # <<>>

IdsOf(s) == {s[i].unique_id : i \in 1..Len(s)}

\* C20 as stated: the combined list holds at most one event per unique_id,
\* has every unique_id of the two lists, is ordered by non-increasing
\* timestamp, and combining a list with itself gives the events of
\* processing it once.
C20_OnePerUniqueId ==
    Combined =>
        LET merged == cb_result.merged
        IN  /\ \A i \in 1..Len(merged) : \A j \in 1..Len(merged) :
                  i # j => merged[i].unique_id # merged[j].unique_id
            /\ IdsOf(merged) = IdsOf(cb_year) \cup IdsOf(cb_recent)
            /\ \A i \in 1..(Len(merged) - 1) :
                  merged[i].timestamp >= merged[i + 1].timestamp
            /\ Range(cb_result.again) = Range(cb_result.once)

\* C20: the combined list holds at most one event per non-empty unique_id
\* and, of the events without a unique_id, at most one per transaction hash
\* and timestamp; it has every unique_id of the two lists, is ordered by
\* non-increasing timestamp, and combining a list with itself gives the
\* events of processing it once.
C20_CombineDedupes ==
    Combined =>
        LET merged == cb_result.merged
        IN  /\ \A i \in 1..Len(merged) : \A j \in 1..Len(merged) :
                  (i # j /\ merged[i].unique_id = merged[j].unique_id)
                      => /\ merged[i].unique_id = ""
                         /\ \/ merged[i].tx_hash # merged[j].tx_hash
                            \/ merged[i].timestamp # merged[j].timestamp
            /\ IdsOf(merged) = IdsOf(cb_year) \cup IdsOf(cb_recent)
            /\ \A i \in 1..(Len(merged) - 1) :
                  merged[i].timestamp >= merged[i + 1].timestamp
            /\ Range(cb_result.again) = Range(cb_result.once)
            /\ Len(cb_result.again) = Len(cb_result.once)

\* Both lists hold the event u1, the later list with another timestamp, and
\* the first list holds u2 twice
C20_Witness ==
    /\ Combined
    /\ Len(cb_year) = 2 /\ Len(cb_recent) = 2 /\ Len(cb_result.merged) = 2
    /\ "u1" \in IdsOf(cb_year) \cap IdsOf(cb_recent)
    /\ Len(cb_result.once) = 1
    /\ cb_result.merged[1].timestamp > cb_result.merged[2].timestamp

----------------------------------------------------------------------------
(* load_wallets on an Excel sheet, utils.py 29-47 and 49-131 *)

\* The longest sheet
MaxRows == 3

\* str.strip() on the cell texts of the model
Strip(s) == IF s = " " THEN "" ELSE s

\* is_wallet_address, utils.py 32-35: "0xAA" and "0xaa" stand for the two
\* spellings of one 40-digit hex address
is_wallet_address(value) == value \in {"0xAA", "0xaa"}

\* normalize_wallet, utils.py 38-46
normalize_wallet(value) == Lower(Strip(value))

\* str.endswith(".eth")
EndsWithEth(value) == value = "name.eth"

\* The position of a string in Python's string order, for sorted()
StrRank(s) ==
    CASE s = "" -> 0
      [] s = "0xaa" -> 1
      [] s = "0xAA" -> 1
      [] s = "Address" -> 2
      [] s = "Name.ETH" -> 3
      [] s = "address" -> 4
      [] s = "label" -> 5
      [] s = "name.eth" -> 6

\* sorted(wallets) of a set of strings
Sorted(set) ==
    [k \in 1..Cardinality(set) |->
        CHOOSE w \in set : Cardinality({v \in set : StrRank(v) < StrRank(w)}) = k - 1]

\* The smallest index of a non-empty set of indices
First(indices) == CHOOSE i \in indices : \A j \in indices : i <= j

\* The header a first row gives, utils.py 87
HeaderOf(row) ==
    [i \in 1..Len(row) |-> IF row[i] = "None" THEN "" ELSE Lower(Strip(row[i]))]

\* One turn of the loop over sheet.iter_rows, utils.py 85-121. st is
\* [header, address_idx, wallets, raised]: whether header is set, the index
\* of the address column ({} for None), the set collected, and whether
\* ValueError was raised.
LoadRow(st, row) ==
    LET header == HeaderOf(row)
        named == {i \in 1..Len(row) : header[i] = "address"}
        texts == {i \in 1..Len(row) : row[i] # "None" /\ Strip(row[i]) # ""}
        valid == {i \in texts :
                     \/ is_wallet_address(normalize_wallet(Strip(row[i])))
                     \/ EndsWithEth(normalize_wallet(Strip(row[i])))}
        found == st.wallets \cup {normalize_wallet(Strip(row[i])) : i \in valid}
    IN  IF ~st.header
        THEN IF named # {}
             THEN [st EXCEPT !.header = TRUE, !.address_idx = {First(named)}]
             ELSE IF texts = {} THEN st
             ELSE IF valid = {} THEN [st EXCEPT !.wallets = found, !.raised = TRUE]
             ELSE [st EXCEPT !.header = TRUE, !.address_idx = {First(texts)},
                             !.wallets = found]
        ELSE IF st.address_idx = {} \/ The(st.address_idx) > Len(row) THEN st
        ELSE IF row[The(st.address_idx)] = "None" THEN st
        ELSE [st EXCEPT !.wallets = @ \cup {normalize_wallet(row[The(st.address_idx)])}]

\* The loop of utils.py 85-121 from row i on
RECURSIVE LoadRows(_, _, _)
LoadRows(rows, i, st) ==
    IF i > Len(rows) \/ st.raised THEN st
    ELSE LoadRows(rows, i + 1, LoadRow(st, rows[i]))

\* load_wallets(input_path, None) for an .xlsx path, utils.py 49-131
load_wallets(rows) ==
    LET st == LoadRows(rows, 1, [header |-> FALSE, address_idx |-> {},
                                 wallets |-> {}, raised |-> FALSE])
    IN  [raised |-> st.raised,
         wallets |-> IF st.raised THEN <<>> ELSE Sorted(st.wallets)]

\* ---- the inputs of the model

\* A row of two cells: None, blank, a header, an address, a name, a label
SheetRows ==
    {<<a, b>> : a \in {"None", " ", "Address", "0xAA", "Name.ETH", "label"},
                b \in {"None", "Address", "0xAA", "label"}}

InitLoad ==
    /\ BatchIdle /\ ClassifyIdle /\ FeatureIdle
    /\ DecodeIdle /\ PriceIdle /\ ParseIdle /\ RetryIdle
    /\ GateIdle /\ GatherIdle /\ NormalizeIdle /\ CombineIdle /\ FetchIdle
    /\ lw_sheet \in SeqsUpTo(SheetRows, MaxRows)
    /\ lw_result = <<>>

LoadWallets ==
    /\ lw_result = <<>>
    /\ lw_result' = load_wallets(lw_sheet)
    /\ UNCHANGED lw_sheet
    /\ UNCHANGED <<fetchVars, batchVars, classifyVars, featureVars, decodeVars, priceVars,
                   parseVars, retryVars, gateVars, gatherVars, normalizeVars,
                   combineVars>>

NextLoad == LoadWallets

SpecLoad == InitLoad /\ [][NextLoad]_vars

\* ---- C21

Loaded == lw_result # <<>>

Blank(cell) == cell = "None" \/ Strip(cell) = ""

\* The rows from the first one with a cell that is not blank
DataRows ==
    {i \in 1..Len(lw_sheet) :
        \E j \in 1..i : \E c \in 1..Len(lw_sheet[j]) : ~Blank(lw_sheet[j][c])}

ValidCell(cell) ==
    ~Blank(cell) /\ (is_wallet_address(Strip(cell)) \/ Lower(Strip(cell)) = "name.eth")

\* The lower-cased values of column c over the data rows
ColumnValues(c) ==
    {Lower(Strip(lw_sheet[i][c])) : i \in {k \in DataRows : ~Blank(lw_sheet[k][c])}}

\* The first data row is no header and holds its one address or name in
\* column c
Headerless(c) ==
    /\ DataRows # {}
    /\ \A k \in 1..Len(lw_sheet[First(DataRows)]) :
          Lower(Strip(lw_sheet[First(DataRows)][k])) # "address"
    /\ \A k \in 1..Len(lw_sheet[First(DataRows)]) :
          ValidCell(lw_sheet[First(DataRows)][k]) <=> k = c

IsSortedList(s) == \A i \in 1..(Len(s) - 1) : StrRank(s[i]) < StrRank(s[i + 1])

\* C21: for a sheet whose first non-empty row is no header and holds an
\* address or .eth name, load_wallets returns the sorted, de-duplicated,
\* lower-cased values of the column of that address, first row included
\* (blank cells aside).
C21_HeaderlessSheet ==
    Loaded =>
        \A c \in 1..2 :
            Headerless(c) =>
                /\ ~lw_result.raised
                /\ IsSortedList(lw_result.wallets)
                /\ Range(lw_result.wallets) \ {""} = ColumnValues(c)

\* The same for sheets with nothing in the second column
C21_SingleColumnSheet ==
    (Loaded /\ \A i \in 1..Len(lw_sheet) : lw_sheet[i][2] = "None") =>
        (Headerless(1) =>
            /\ ~lw_result.raised
            /\ IsSortedList(lw_result.wallets)
            /\ Range(lw_result.wallets) \ {""} = ColumnValues(1))

\* An empty leading row, then two rows of data in the first column
C21_Reached ==
    /\ Loaded
    /\ lw_sheet = << <<"None", "None">>, <<"0xAA", "None">>, <<"Name.ETH", "None">> >>
    /\ lw_result = [raised |-> FALSE, wallets |-> <<"0xaa", "name.eth">>]

----------------------------------------------------------------------------
(* FeatureCalculator.fetch_wallet_data, features.py 95-110, over the page
   requests of its two gather_wallet_transfers calls *)

\* The most pages one direction of one fetch takes
MaxPages == 2

\* The 12-month fetch (stop_timestamp=cutoff_year) and the latest-250 fetch
\* (limit=250)
Fetches == {"year", "recent"}

FetchDirections == {"outgoing", "incoming"}

\* Every page of both directions of a fetch has been received
AllPagesReceived(f) ==
    \A d \in FetchDirections : fd_task[f][d].got = fd_pages[f][d]

\* A fetch has issued a page request
HasRequested(f) ==
    \E d \in FetchDirections : fd_task[f][d].got > 0 \/ fd_task[f][d].inflight

\* The call of features.py 103 is made when the await of features.py 98 has
\* returned
RecentMayStart == fd_pc.year = "returned"

FetchFrame ==
    /\ UNCHANGED fd_pages
    /\ UNCHANGED <<loadVars, batchVars, classifyVars, featureVars, decodeVars,
                   priceVars, parseVars, retryVars, gateVars, gatherVars,
                   normalizeVars, combineVars>>

InitFetch ==
    /\ BatchIdle /\ ClassifyIdle /\ FeatureIdle
    /\ DecodeIdle /\ PriceIdle /\ ParseIdle /\ RetryIdle
    /\ GateIdle /\ GatherIdle /\ NormalizeIdle /\ CombineIdle /\ LoadIdle
    /\ fd_pages \in [Fetches -> [FetchDirections -> 1..MaxPages]]
    /\ fd_pc = [main |-> "called", year |-> "notstarted", recent |-> "notstarted"]
    /\ fd_task = [f \in Fetches |->
                     [d \in FetchDirections |-> [got |-> 0, inflight |-> FALSE]]]

\* await gather_wallet_transfers(..., stop_timestamp=cutoff_year) is entered,
\* features.py 98
StartYearFetch ==
    /\ fd_pc.main = "called" /\ fd_pc.year = "notstarted"
    /\ fd_pc' = [fd_pc EXCEPT !.year = "gathering"]
    /\ UNCHANGED fd_task
    /\ FetchFrame

\* await gather_wallet_transfers(..., limit=250) is entered, features.py 103
StartRecentFetch ==
    /\ fd_pc.main = "called" /\ fd_pc.recent = "notstarted"
    /\ RecentMayStart
    /\ fd_pc' = [fd_pc EXCEPT !.recent = "gathering"]
    /\ UNCHANGED fd_task
    /\ FetchFrame

\* One of the two pagination loops of a fetch asks for its next page,
\* alchemy.py 154
RequestPage ==
    /\ \E f \in Fetches, d \in FetchDirections :
          /\ fd_pc[f] = "gathering"
          /\ ~fd_task[f][d].inflight
          /\ fd_task[f][d].got < fd_pages[f][d]
          /\ fd_task' = [fd_task EXCEPT ![f][d].inflight = TRUE]
    /\ UNCHANGED fd_pc
    /\ FetchFrame

\* The page arrives
ReceivePage ==
    /\ \E f \in Fetches, d \in FetchDirections :
          /\ fd_task[f][d].inflight
          /\ fd_task' = [fd_task EXCEPT ![f][d] =
                            [got |-> @.got + 1, inflight |-> FALSE]]
    /\ UNCHANGED fd_pc
    /\ FetchFrame

\* asyncio.gather of a fetch has both lists and the fetch returns,
\* alchemy.py 223-261
FetchReturns ==
    /\ \E f \in Fetches :
          /\ fd_pc[f] = "gathering"
          /\ AllPagesReceived(f)
          /\ fd_pc' = [fd_pc EXCEPT ![f] = "returned"]
    /\ UNCHANGED fd_task
    /\ FetchFrame

\* Both sets are normalised and returned, features.py 108-110
FetchWalletDataReturns ==
    /\ fd_pc.main = "called"
    /\ fd_pc.year = "returned" /\ fd_pc.recent = "returned"
    /\ fd_pc' = [fd_pc EXCEPT !.main = "returned"]
    /\ UNCHANGED fd_task
    /\ FetchFrame

NextFetch ==
    \/ StartYearFetch \/ StartRecentFetch \/ RequestPage \/ ReceivePage
    \/ FetchReturns \/ FetchWalletDataReturns

SpecFetch == InitFetch /\ [][NextFetch]_vars

\* ---- C23

\* The 12-month fetch is under way and has not received its last page
YearAwaitsPages ==
    fd_pc # <<>> /\ fd_pc.year = "gathering" /\ ~AllPagesReceived("year")

\* The latest-250 fetch has issued its first request or is free to issue it
RecentUnderWay ==
    \/ HasRequested("recent")
    \/ /\ fd_pc.recent = "gathering"
       /\ \E d \in FetchDirections : ~fd_task["recent"][d].inflight

\* C23: the two fetches run concurrently: while the 12-month fetch still
\* awaits pages, the latest-250 fetch has issued its first request or is free
\* to issue it.
C23_FetchesConcurrent == YearAwaitsPages => RecentUnderWay

\* What the code does instead: the latest-250 fetch issues no request before
\* the 12-month fetch has returned
C23_FetchesInSequence ==
    (fd_pc # <<>> /\ HasRequested("recent")) =>
        (fd_pc.year = "returned" /\ AllPagesReceived("year"))

====
